---------------------------- MODULE Spec2Model ----------------------------
(***************************************************************************)
(* A model of chroma_agent/action_plugins/manage_corosync.py: the retried  *)
(* configuration-store transaction (cibadmin), the resource-manager        *)
(* bootstrap (configure_pacemaker) run by one agent and by several agents  *)
(* against one store, the multicast port negotiation (detect_ring1), the   *)
(* choice of the ring1 subnet (find_subnet), configure_corosync, the write *)
(* of the config file (_render_config_file), configure_fencing,           *)
(* get_cluster_size and delete_node.                                       *)
(*                                                                         *)
(* Each component has its own variables and its own specification; the     *)
(* variables of the other components stay at their initial values          *)
(* (delete_node runs its transactions on the variables of cibadmin).       *)
(***************************************************************************)
EXTENDS Integers, Sequences, FiniteSets, TLC

VARIABLES
    \* cibadmin(command_args)
    cib_args,       \* command_args
    cib_n,          \* n: attempts left
    cib_rc,         \* rc of the last invocation (10 before the first)
    cib_codes,      \* the exit codes of the invocations made so far
    cib_out,        \* (stdout, stderr) of the last invocation
    cib_sleeps,     \* number of sleep(1) calls made
    cib_pc,         \* "loop" | "returned" | "raised"
    cib_result,     \* the returned tuple, or the raised error
    \* configure_pacemaker(), one agent, command results as inputs
    pm_pc,          \* the next statement of configure_pacemaker
    pm_timeout,     \* timeout (line 401)
    pm_polls,       \* number of 'crm status' polls made
    pm_leaderAt,    \* index of the poll that reported a leader, 0 if none
    pm_cmds,        \* the commands issued after the leader wait, in order
    pm_policy,      \* no_quorum_policy
    pm_size,        \* the result of get_cluster_size(), -1 if not called
    pm_applied,     \* the no-quorum-policy the property command applied
    pm_props,       \* the property and default commands that took effect
    pm_createFailed,\* the primitive-create command raised
    pm_showRc,      \* rc of 'crm resource show st-fencing', -1 if not run
    pm_error,       \* "" | the failure that was raised
    \* configure_pacemaker() from line 423 on, several agents, one store
    ag_pc,          \* per agent: the next statement
    ag_created,     \* per agent: its primitive-create command succeeded
    ag_applied,     \* per agent: number of property/defaults commands done
    st_prim,        \* the store holds the primitive st-fencing
    st_props,       \* the property/defaults commands applied to the store
    \* detect_ring1: find_unused_port, discover_existing_mcastport
    mc_pc,          \* per node: phase of the negotiation
    mc_ports,       \* per node: ports (the candidate pool of find_unused_port)
    mc_proposed,    \* per node: the port find_unused_port returned, 0 if none
    mc_port,        \* per node: iface.mcastport
    mc_num_recvd,   \* per node: num_recvd
    mc_seen,        \* per node: the ports find_unused_port's callback saw
    mc_heard,       \* per node: the rings whose device and group that
                    \* callback got its packets from
                    \* (kept until the node's negotiation ends)
    mc_captured,    \* per node: the first packet given to discover's callback
    mc_peers_up,    \* per node: the nodes that were sending when it decided
    mc_conf,        \* per node: the ports of [ring0, ring1] written to the config
    \* find_subnet, generate_ring1_network_config
    sn_pc,          \* "start" | "found" | "generated"
    sn_address,     \* ring0's IPv4 address, as four octets
    sn_prefixlen,   \* ring0's prefix length
    sn_shadow,      \* the network find_subnet returned
    sn_ring1,       \* (address, prefixlen) generate_ring1_network_config returned
    \* configure_corosync(), with unconfigure_pacemaker()
    rg_pc,          \* the next statement of configure_corosync
    rg_args,        \* which of ring1_iface, ring1_ipaddr, ring1_netmask,
                    \* mcast_port were given (ring1_iface: the device, 0 if none)
    rg_prefixlen,   \* ring0.ipv4_prefixlen
    rg_ifaces,      \* per interface: its address and link state
    rg_ipaddr,      \* ring1_ipaddr: "None" | "given" | "generated"
    rg_subnet,      \* ring1_subnet: "unbound" | "given" | "generated"
    rg_ring1,       \* the interface chosen as ring1, 0 if none
    rg_assigned,    \* the interfaces set_address gave the ring1 address
    rg_written,     \* corosync.conf was written by this run
    rg_size,        \* the result of get_cluster_size(), -1 if not called
    rg_statusRc,    \* the exit code of 'crm status', -1 before it is run
    rg_cmds,        \* the steps done and commands issued, in order
    rg_error,       \* "" | the failure that was raised
    \* _render_config_file(path, config), and a reader of path
    rf_pc,          \* the next statement of _render_config_file
    rf_len,         \* the length of config, in chunks of the copy
    rf_tmp,         \* the chunks of config in the temporary file, -1: no file
    rf_target,      \* the file at path
    rf_old,         \* the file at path.old
    rf_had,         \* a file existed at path when the write began
    rf_seen,        \* what readers of path have observed during the write
    \* configure_fencing(agents), called twice on one node
    fc_pc,          \* "call" | "clear" | "set" | "done"
    fc_calls,       \* the number of calls that have returned
    fc_agents,      \* agents of the call in progress (of the last call)
    fc_idx,         \* idx of the agent the loop sets next
    fc_attrs,       \* the node's fence attributes: (idx, attribute, value)
    fc_first,       \* the node's fence attributes when the first call returned
    \* get_cluster_size()
    sz_pc,          \* "start" | "returned" | "raised"
    sz_rows,        \* the rows of the node registry 'crm_node -l' lists
    sz_result,      \* the returned count, -1 if none
    \* delete_node(nodename); its transactions run on the cibadmin variables
    dn_pc,          \* the next statement of delete_node
    dn_rows,        \* the rows of the node registry 'crm_node -l' lists
    dn_nodename,    \* nodename
    dn_node_id,     \* node_id after the loop of lines 522-525
    dn_cmds,        \* the commands and transactions issued, in order
    dn_rcs,         \* the exit codes of the commands that have ended, in order
    dn_error        \* "" | the failure that was raised

cibVars == <<cib_args, cib_n, cib_rc, cib_codes, cib_out, cib_sleeps, cib_pc,
             cib_result>>
pmVars  == <<pm_pc, pm_timeout, pm_polls, pm_leaderAt, pm_cmds, pm_policy,
             pm_size, pm_applied, pm_props, pm_createFailed, pm_showRc,
             pm_error>>
agVars  == <<ag_pc, ag_created, ag_applied, st_prim, st_props>>
mcVars  == <<mc_pc, mc_ports, mc_proposed, mc_port, mc_num_recvd, mc_seen,
             mc_heard, mc_captured, mc_peers_up, mc_conf>>
snVars == <<sn_pc, sn_address, sn_prefixlen, sn_shadow, sn_ring1>>
rgVars == <<rg_pc, rg_args, rg_prefixlen, rg_ifaces, rg_ipaddr, rg_subnet,
            rg_ring1, rg_assigned, rg_written, rg_size, rg_statusRc, rg_cmds,
            rg_error>>
rfVars == <<rf_pc, rf_len, rf_tmp, rf_target, rf_old, rf_had,
           rf_seen>>
fcVars == <<fc_pc, fc_calls, fc_agents, fc_idx, fc_attrs, fc_first>>
szVars == <<sz_pc, sz_rows, sz_result>>
dnVars == <<dn_pc, dn_rows, dn_nodename, dn_node_id, dn_cmds, dn_rcs,
            dn_error>>
vars    == <<cibVars, pmVars, agVars, mcVars, snVars, rgVars, rfVars,
             fcVars, szVars, dnVars>>

\* The variables of the other components, for each component.
notCib == <<pmVars, agVars, mcVars, snVars, rgVars, rfVars, fcVars, szVars,
            dnVars>>
notPm == <<cibVars, agVars, mcVars, snVars, rgVars, rfVars, fcVars, szVars,
           dnVars>>
notAg == <<cibVars, pmVars, mcVars, snVars, rgVars, rfVars, fcVars, szVars,
           dnVars>>
notMc == <<cibVars, pmVars, agVars, snVars, rgVars, rfVars, fcVars, szVars,
           dnVars>>
notSn == <<cibVars, pmVars, agVars, mcVars, rgVars, rfVars, fcVars, szVars,
           dnVars>>
notRg == <<cibVars, pmVars, agVars, mcVars, snVars, rfVars, fcVars, szVars,
           dnVars>>
notRf == <<cibVars, pmVars, agVars, mcVars, snVars, rgVars, fcVars, szVars,
           dnVars>>
notFc == <<cibVars, pmVars, agVars, mcVars, snVars, rgVars, rfVars, szVars,
           dnVars>>
notSz == <<cibVars, pmVars, agVars, mcVars, snVars, rgVars, rfVars, fcVars,
           dnVars>>
notDn == <<cibVars, pmVars, agVars, mcVars, snVars, rgVars, rfVars, fcVars,
           szVars>>

\* The variables of neither delete_node nor cibadmin.
notDnCib == <<pmVars, agVars, mcVars, snVars, rgVars, rfVars, fcVars, szVars>>

-----------------------------------------------------------------------------
(* Bounds of the model.                                                    *)

\* Number of agents bootstrapping against one store.
NAgents == 2
\* Number of nodes negotiating a multicast port.
NNodes == 2
\* Stands for the stop value 65535 of range(1, 65535, 2): the pool is the
\* odd numbers below PortStop.
PortStop == 8
\* Largest number of nodes a 'crm_node -l' listing reports as member or lost.
MaxClusterSize == 3
NIfaces == 2
MaxChunks == 2
MaxFenceAgents == 2
NCalls == 2
MaxDeleteRows == 3
MaxRingNodes == 3

-----------------------------------------------------------------------------
(* cibadmin(command_args): lines 533-552.                                  *)

\* n = 100
CibAttempts == 100
\* rc = 10: the store's "try again" exit code
CibBusy == 10

\* Exit codes of the cibadmin command: success, busy, two other failures.
CibCodes == {0, CibBusy, 1, 5}
\* Captured (stdout, stderr) of one invocation.
CibOutputs == {<<"out_a", "err_a">>, <<"out_b", "err_b">>}
\* The argument lists the module passes (lines 493, 527, 529).
CibArgLists == {"-f -E", "--delete nodes -X node", "--delete nodes --crm_xml node_state"}

\* while rc == 10 and n > 0
CibContinueOffByOne(rc, n) == rc = CibBusy /\ n >= 0
CibContinueAnyError(rc, n) == rc # 0 /\ n > 0
CibContinue(rc, n) == rc = CibBusy /\ n > 0

\* if rc == 0: break / sleep(1): the sleeps one iteration adds
CibSleepAlways(rc) == 1
CibSleepsOf(rc) == IF rc = 0 THEN 0 ELSE 1

\* if rc == 0: break / n -= 1
CibLeft(rc, n) == IF rc = 0 THEN n ELSE n - 1

CibInit ==
    /\ cib_args \in CibArgLists
    /\ cib_n = CibAttempts
    /\ cib_rc = CibBusy
    /\ cib_codes = <<>>
    /\ cib_out = <<"", "">>
    /\ cib_sleeps = 0
    /\ cib_pc = "loop"
    /\ cib_result = <<>>

CibIdle ==
    /\ cib_args = "" /\ cib_n = 0 /\ cib_rc = 0 /\ cib_codes = <<>>
    /\ cib_out = <<"", "">>
    /\ cib_sleeps = 0 /\ cib_pc = "idle" /\ cib_result = <<>>

\* One iteration of the loop: the command is run with result (rc, out); on 0
\* the loop is left by break, otherwise after sleep(1) and n -= 1 its condition
\* is tested again.  When the loop ends, lines 548-552 raise or return.
CibRun(rc, out) ==
    /\ cib_pc = "loop"
    /\ CibContinue(cib_rc, cib_n)
    /\ cib_rc' = rc
    /\ cib_codes' = Append(cib_codes, rc)
    /\ cib_out' = out
    /\ cib_sleeps' = cib_sleeps + CibSleepsOf(rc)
    /\ cib_n' = CibLeft(rc, cib_n)
    /\ IF rc # 0 /\ CibContinue(rc, cib_n')
         THEN cib_pc' = "loop" /\ cib_result' = cib_result
         ELSE IF rc # 0
                THEN /\ cib_pc' = "raised"
                     /\ cib_result' = <<"RuntimeError", rc, cib_args, out[1], out[2]>>
                ELSE /\ cib_pc' = "returned"
                     /\ cib_result' = <<rc, out[1], out[2]>>
    /\ UNCHANGED cib_args
    /\ UNCHANGED notCib

CibNext == \E rc \in CibCodes, out \in CibOutputs : CibRun(rc, out)

-----------------------------------------------------------------------------
(* get_cluster_size(): lines 377-389.                                      *)

\* The status column of a 'crm_node -l' row.
NodeStatuses == {"member", "lost", "offline"}

\* A row of the node registry: id, name, status.
NodeRow(i, status) == <<i, "node", status>>

\* stdout of 'crm_node -l' for the rows: the text "<id> <name> <status>\n"
\* per row, as the sequence of its words and separators.
RECURSIVE ListingText(_)
ListingText(rows) ==
    IF rows = <<>> THEN <<>>
    ELSE <<ToString(rows[1][1]), " ", rows[1][2], " ", rows[1][3], "\n">>
         \o ListingText(Tail(rows))

\* str.rstrip()
RECURSIVE RStrip(_)
RStrip(text) ==
    IF text # <<>> /\ text[Len(text)] \in {" ", "\n"}
      THEN RStrip(SubSeq(text, 1, Len(text) - 1))
      ELSE text

\* str.split(sep): the pieces between the separators; '' gives ['']
RECURSIVE Split(_, _)
Split(text, sep) ==
    IF \A i \in 1..Len(text) : text[i] # sep
      THEN <<text>>
      ELSE LET k == CHOOSE i \in 1..Len(text) :
                        text[i] = sep /\ \A j \in 1..(i - 1) : text[j] # sep
           IN  <<SubSeq(text, 1, k - 1)>>
               \o Split(SubSeq(text, k + 1, Len(text)), sep)

\* line.split(" ") for every line of stdout.rstrip().split('\n'): an empty
\* stdout gives the one line '', whose only field is ''.
NodeLines(rows) ==
    LET lines == Split(RStrip(ListingText(rows)), "\n")
    IN  [i \in 1..Len(lines) |-> Split(lines[i], " ")]

\* node_id, name, status = line.split(" ") raises unless there are 3 fields.
NodeListMalformed(rows) ==
    \E i \in 1..Len(NodeLines(rows)) : Len(NodeLines(rows)[i]) # 3

\* if status == "member" or status == "lost": n = n + 1
CountsAsNode(status) == status = <<"member">> \/ status = <<"lost">>

get_cluster_size(rows) ==
    Cardinality({i \in 1..Len(NodeLines(rows)) :
                    CountsAsNode(NodeLines(rows)[i][3])})

\* The listings fed to the model: up to MaxClusterSize + 1 rows.
NodeListings ==
    UNION {{[i \in 1..k |-> NodeRow(i, f[i])] : f \in [1..k -> NodeStatuses]}
           : k \in 0..(MaxClusterSize + 1)}

-----------------------------------------------------------------------------
(* configure_pacemaker(), one agent: lines 392-450.                        *)

\* timeout = 120
LeaderPolls == 120

\* The lines of a 'crm status' output.  A line is its tokens; the text up to
\* and including the first ':' is one token and the character after it one.
DcNone   == <<"Current DC:", " ", "NONE">>
DcNode   == <<"Current DC:", " ", "node1", " - partition with quorum">>
DcOther  == <<"Online:", " ", "[ node1 ]">>
StatusOutputs ==
    { <<>>, <<DcOther>>, <<DcNone>>, <<DcOther, DcNone>>,
      <<DcNode>>, <<DcNone, DcNode>>, <<DcOther, DcNode>> }

\* line.startswith("Current DC:")
IsDcLine(line) == Len(line) >= 1 /\ line[1] = "Current DC:"
\* line[line.find(":") + 2:]
AfterColon(line) == SubSeq(line, 3, Len(line))
\* the for loop of lines 404-408 sets timeout = -1
LeaderReported(lines) ==
    \E i \in 1..Len(lines) : IsDcLine(lines[i]) /\ AfterColon(lines[i]) # <<"NONE">>

\* lines 406-410: timeout = -1 on a leader; sleep(1); timeout = timeout - 1
AfterPollSkipping(timeout, leader) == (IF leader THEN -1 ELSE timeout) - 2
AfterPoll(timeout, leader) == (IF leader THEN -1 ELSE timeout) - 1

\* if timeout == 0: raise
LeaderWaitFailedLoose(timeout) == timeout <= 0
LeaderWaitFailedNever(timeout) == FALSE
LeaderWaitFailed(timeout) == timeout = 0

\* if get_cluster_size() > 2
QuorumPolicyFromTwo(size) == IF size >= 2 THEN "stop" ELSE "ignore"
QuorumPolicy(size) == IF size > 2 THEN "stop" ELSE "ignore"

\* if rc == 0: return / else: raise  (lines 432-436)
ExistsMeansReturnAlways(rc) == TRUE
ExistsMeansReturnSwapped(rc) == rc # 0
ExistsMeansReturn(rc) == rc = 0

\* The property and resource-default commands of lines 438-450, in order.
PropertyCommands ==
    << "property no-quorum-policy", "property symmetric-cluster",
       "property cluster-infrastructure", "property stonith-enabled",
       "rsc_defaults resource-stickiness", "rsc_defaults failure-timeout",
       "rsc_defaults migration-threshold" >>
NProperties == Len(PropertyCommands)

PmInit ==
    /\ pm_pc = "corosync_status"
    /\ pm_timeout = LeaderPolls
    /\ pm_polls = 0
    /\ pm_leaderAt = 0
    /\ pm_cmds = <<>>
    /\ pm_policy = ""
    /\ pm_size = -1
    /\ pm_applied = ""
    /\ pm_props = {}
    /\ pm_createFailed = FALSE
    /\ pm_showRc = -1
    /\ pm_error = ""

PmIdle ==
    /\ pm_pc = "idle" /\ pm_timeout = 0 /\ pm_polls = 0 /\ pm_leaderAt = 0
    /\ pm_cmds = <<>> /\ pm_policy = "" /\ pm_size = -1 /\ pm_applied = ""
    /\ pm_props = {} /\ pm_createFailed = FALSE
    /\ pm_showRc = -1 /\ pm_error = ""

\* shell.try_run(cmd) at statement pc: the command is issued; a nonzero exit
\* raises, otherwise control passes to next.
PmTryRun(pc, cmd, ok, next) ==
    /\ pm_pc = pc
    /\ pm_cmds' = Append(pm_cmds, cmd)
    /\ IF ok THEN pm_pc' = next /\ pm_error' = pm_error
             ELSE pm_pc' = "raised" /\ pm_error' = cmd

\* line 395: if shell.run(['/sbin/service', 'corosync', 'status'])[0]
PmCorosyncStatus(rc) ==
    /\ pm_pc = "corosync_status"
    /\ pm_cmds' = Append(pm_cmds, "corosync status")
    /\ pm_pc' = IF rc # 0 THEN "corosync_restart" ELSE "pacemaker_restart"
    /\ UNCHANGED <<pm_timeout, pm_polls, pm_leaderAt, pm_policy, pm_size,
                   pm_applied, pm_props, pm_createFailed, pm_showRc,
                   pm_error>>
    /\ UNCHANGED notPm

\* lines 396-397
PmCorosyncRestart(ok) ==
    /\ PmTryRun("corosync_restart", "corosync restart", ok, "corosync_recheck")
    /\ UNCHANGED <<pm_timeout, pm_polls, pm_leaderAt, pm_policy, pm_size,
                   pm_applied, pm_props, pm_createFailed, pm_showRc>>
    /\ UNCHANGED notPm

PmCorosyncRecheck(ok) ==
    /\ PmTryRun("corosync_recheck", "corosync status", ok, "pacemaker_restart")
    /\ UNCHANGED <<pm_timeout, pm_polls, pm_leaderAt, pm_policy, pm_size,
                   pm_applied, pm_props, pm_createFailed, pm_showRc>>
    /\ UNCHANGED notPm

\* lines 399-401
PmPacemakerRestart(ok) ==
    /\ PmTryRun("pacemaker_restart", "pacemaker restart", ok, "poll")
    /\ pm_timeout' = LeaderPolls
    /\ UNCHANGED <<pm_polls, pm_leaderAt, pm_policy, pm_size, pm_applied,
                   pm_props,
                   pm_createFailed, pm_showRc>>
    /\ UNCHANGED notPm

\* One iteration of the loop of lines 402-410 and, when it was the last, the
\* test of line 412.
PmPoll(stdout) ==
    /\ pm_pc = "poll"
    /\ pm_timeout > 0
    /\ pm_polls' = pm_polls + 1
    /\ pm_leaderAt' = IF LeaderReported(stdout) THEN pm_polls + 1 ELSE pm_leaderAt
    /\ pm_timeout' = AfterPoll(pm_timeout, LeaderReported(stdout))
    /\ IF pm_timeout' > 0
         THEN pm_pc' = "poll" /\ pm_error' = pm_error
         ELSE IF LeaderWaitFailed(pm_timeout')
                THEN pm_pc' = "raised" /\ pm_error' = "Failed to start pacemaker"
                ELSE pm_pc' = "chkconfig" /\ pm_error' = pm_error
    /\ UNCHANGED <<pm_cmds, pm_policy, pm_size, pm_applied, pm_props,
                   pm_createFailed,
                   pm_showRc>>
    /\ UNCHANGED notPm

\* line 415
PmChkconfig(ok) ==
    /\ PmTryRun("chkconfig", "chkconfig pacemaker on", ok, "cluster_size")
    /\ UNCHANGED <<pm_timeout, pm_polls, pm_leaderAt, pm_policy, pm_size,
                   pm_applied, pm_props, pm_createFailed, pm_showRc>>
    /\ UNCHANGED notPm

\* lines 417-421
PmClusterSize(rows) ==
    /\ pm_pc = "cluster_size"
    /\ pm_cmds' = Append(pm_cmds, "crm_node -l")
    /\ IF NodeListMalformed(rows)
         THEN /\ pm_pc' = "raised" /\ pm_error' = "ValueError"
              /\ UNCHANGED <<pm_policy, pm_size>>
         ELSE /\ pm_pc' = "fence_stop"
              /\ pm_size' = get_cluster_size(rows)
              /\ pm_policy' = QuorumPolicy(get_cluster_size(rows))
              /\ pm_error' = pm_error
    /\ UNCHANGED <<pm_timeout, pm_polls, pm_leaderAt, pm_applied, pm_props,
                   pm_createFailed, pm_showRc>>
    /\ UNCHANGED notPm

\* line 423, _unconfigure_fencing() lines 500-502: both exit codes are ignored
PmFenceStop ==
    /\ pm_pc = "fence_stop"
    /\ pm_cmds' = Append(pm_cmds, "resource stop st-fencing")
    /\ pm_pc' = "fence_delete"
    /\ UNCHANGED <<pm_timeout, pm_polls, pm_leaderAt, pm_policy, pm_size,
                   pm_applied, pm_props, pm_createFailed, pm_showRc,
                   pm_error>>
    /\ UNCHANGED notPm

PmFenceDelete ==
    /\ pm_pc = "fence_delete"
    /\ pm_cmds' = Append(pm_cmds, "configure delete st-fencing")
    /\ pm_pc' = "create"
    /\ UNCHANGED <<pm_timeout, pm_polls, pm_leaderAt, pm_policy, pm_size,
                   pm_applied, pm_props, pm_createFailed, pm_showRc,
                   pm_error>>
    /\ UNCHANGED notPm

\* lines 426-429: the failure is caught and the existence check follows
PmCreate(ok) ==
    /\ pm_pc = "create"
    /\ pm_cmds' = Append(pm_cmds, "configure primitive st-fencing")
    /\ pm_createFailed' = ~ok
    /\ pm_pc' = IF ok THEN "property" ELSE "show"
    /\ UNCHANGED <<pm_timeout, pm_polls, pm_leaderAt, pm_policy, pm_size,
                   pm_applied, pm_props, pm_showRc, pm_error>>
    /\ UNCHANGED notPm

\* lines 430-436: return when the primitive exists, else re-raise
PmShow(rc) ==
    /\ pm_pc = "show"
    /\ pm_cmds' = Append(pm_cmds, "resource show st-fencing")
    /\ pm_showRc' = rc
    /\ IF ExistsMeansReturn(rc)
         THEN pm_pc' = "returned" /\ pm_error' = pm_error
         ELSE pm_pc' = "raised" /\ pm_error' = "configure primitive st-fencing"
    /\ UNCHANGED <<pm_timeout, pm_polls, pm_leaderAt, pm_policy, pm_size,
                   pm_applied, pm_props, pm_createFailed>>
    /\ UNCHANGED notPm

\* Number of property/defaults commands in pm_cmds.
PmPropertiesIssued ==
    Cardinality({i \in 1..Len(pm_cmds) :
                    \E j \in 1..NProperties : pm_cmds[i] = PropertyCommands[j]})

\* lines 438-450: each command is run by try_run, which raises when the
\* command fails
PropertyFailureIgnored(ok) == FALSE
PropertyFailureAborts(ok) == ~ok

\* lines 438-450: the next property or resource-default command; the first
\* one sets no-quorum-policy to no_quorum_policy
PmProperty(ok) ==
    /\ pm_pc = "property"
    /\ LET j == PmPropertiesIssued + 1 IN
         /\ pm_cmds' = Append(pm_cmds, PropertyCommands[j])
         /\ pm_applied' = IF ok /\ j = 1 THEN pm_policy ELSE pm_applied
         /\ pm_props' = IF ok THEN pm_props \cup {PropertyCommands[j]}
                               ELSE pm_props
         /\ IF PropertyFailureAborts(ok)
              THEN pm_pc' = "raised" /\ pm_error' = PropertyCommands[j]
            ELSE /\ pm_pc' = IF j = NProperties THEN "returned" ELSE "property"
                 /\ pm_error' = pm_error
    /\ UNCHANGED <<pm_timeout, pm_polls, pm_leaderAt, pm_policy, pm_size,
                   pm_createFailed, pm_showRc>>
    /\ UNCHANGED notPm

PmNext ==
    \/ \E rc \in {0, 1, 3} : PmCorosyncStatus(rc)
    \/ \E ok \in BOOLEAN : PmCorosyncRestart(ok)
    \/ \E ok \in BOOLEAN : PmCorosyncRecheck(ok)
    \/ \E ok \in BOOLEAN : PmPacemakerRestart(ok)
    \/ \E stdout \in StatusOutputs : PmPoll(stdout)
    \/ \E ok \in BOOLEAN : PmChkconfig(ok)
    \/ \E rows \in NodeListings : PmClusterSize(rows)
    \/ PmFenceStop
    \/ PmFenceDelete
    \/ \E ok \in BOOLEAN : PmCreate(ok)
    \/ \E rc \in {0, 1} : PmShow(rc)
    \/ \E ok \in BOOLEAN : PmProperty(ok)

-----------------------------------------------------------------------------
(* configure_pacemaker() from the fencing reset on (lines 423-450), run by *)
(* several agents against one configuration store.  Every store command is *)
(* one atomic step.  The store holds or does not hold the primitive        *)
(* st-fencing: 'configure delete' removes it, 'configure primitive' fails  *)
(* when it is there (and may fail for another reason), 'resource show'     *)
(* exits 0 exactly when it is there.                                        *)

Agents == 1..NAgents

AgInit ==
    /\ ag_pc = [a \in Agents |-> "fence_stop"]
    /\ ag_created = [a \in Agents |-> FALSE]
    /\ ag_applied = [a \in Agents |-> 0]
    /\ st_prim \in BOOLEAN
    /\ st_props = {}

AgIdle ==
    /\ ag_pc = <<>> /\ ag_created = <<>> /\ ag_applied = <<>>
    /\ st_prim = FALSE /\ st_props = {}

\* line 501: shell.run(["crm", "resource", "stop", "st-fencing"]), rc ignored
AgFenceStop(a) ==
    /\ ag_pc[a] = "fence_stop"
    /\ ag_pc' = [ag_pc EXCEPT ![a] = "fence_delete"]
    /\ UNCHANGED <<ag_created, ag_applied, st_prim, st_props>>
    /\ UNCHANGED notAg

\* line 502: shell.run(["crm", "configure", "delete", "st-fencing"]), rc ignored
AgFenceDelete(a) ==
    /\ ag_pc[a] = "fence_delete"
    /\ st_prim' = FALSE
    /\ ag_pc' = [ag_pc EXCEPT ![a] = "create"]
    /\ UNCHANGED <<ag_created, ag_applied, st_props>>
    /\ UNCHANGED notAg

\* lines 426-429
AgCreate(a, ok) ==
    /\ ag_pc[a] = "create"
    /\ ok => ~st_prim
    /\ st_prim' = (st_prim \/ ok)
    /\ ag_created' = [ag_created EXCEPT ![a] = ok]
    /\ ag_pc' = [ag_pc EXCEPT ![a] = IF ok THEN "property" ELSE "show"]
    /\ UNCHANGED <<ag_applied, st_props>>
    /\ UNCHANGED notAg

\* lines 430-436
AgShow(a) ==
    /\ ag_pc[a] = "show"
    /\ LET rc == IF st_prim THEN 0 ELSE 1 IN
         ag_pc' = [ag_pc EXCEPT ![a] = IF ExistsMeansReturn(rc) THEN "returned"
                                                                 ELSE "raised"]
    /\ UNCHANGED <<ag_created, ag_applied, st_prim, st_props>>
    /\ UNCHANGED notAg

\* lines 438-450
AgProperty(a, ok) ==
    /\ ag_pc[a] = "property"
    /\ LET j == ag_applied[a] + 1 IN
         IF ~ok
           THEN /\ ag_pc' = [ag_pc EXCEPT ![a] = "raised"]
                /\ UNCHANGED <<ag_applied, st_props>>
           ELSE /\ ag_applied' = [ag_applied EXCEPT ![a] = j]
                /\ st_props' = st_props \cup {PropertyCommands[j]}
                /\ ag_pc' = [ag_pc EXCEPT ![a] =
                                IF j = NProperties THEN "returned" ELSE "property"]
    /\ UNCHANGED <<ag_created, st_prim>>
    /\ UNCHANGED notAg

AgNext ==
    \E a \in Agents :
        \/ AgFenceStop(a)
        \/ AgFenceDelete(a)
        \/ \E ok \in BOOLEAN : AgCreate(a, ok)
        \/ AgShow(a)
        \/ \E ok \in BOOLEAN : AgProperty(a, ok)

-----------------------------------------------------------------------------
(* The multicast port negotiation of detect_ring1 (lines 186-206) and the  *)
(* commit of configure_corosync (lines 365-373), run by several nodes.  A   *)
(* node sends to the multicast groups only once its transport is           *)
(* restarted with the written configuration; from then on its packets, with *)
(* its configured port as destination port, can be captured by the others. *)
(* Other hosts of the network may send to the same groups.                  *)

Nodes == 1..NNodes

\* ports = range(1, 65535, 2)
PortPool == {p \in 1..(PortStop - 1) : p % 2 = 1}

\* Destination ports of the traffic of hosts outside the cluster.
ForeignPorts == {2, 3}

\* mcastaddr: "226.94.%s.1" % ringnumber -- the group is named by its ring.
\* The packets that can be captured on the group of ring g.
Broadcasting == {x \in Nodes : mc_pc[x] = "broadcasting"}

PacketsOn(g) ==
    {[src |-> m, group |-> g, dport |-> mc_conf[m][g + 1]] : m \in Broadcasting}
    \cup {[src |-> 0, group |-> g, dport |-> p] : p \in ForeignPorts}

NoPacket == [src |-> -1, group |-> -1, dport |-> 0]

\* line 192: iface.find_unused_port(ring0) -- the capture of the proposal
\* phase is opened on the interface it is given, with that interface's group.
ProposeRing == 0
\* line 203/260-265: discover_existing_mcastport captures on self (ring1).
DiscoverRing == 1

McInit ==
    /\ mc_pc = [n \in Nodes |-> "propose"]
    /\ mc_ports = [n \in Nodes |-> PortPool]
    /\ mc_proposed = [n \in Nodes |-> 0]
    /\ mc_port = [n \in Nodes |-> 0]
    /\ mc_num_recvd = [n \in Nodes |-> 0]
    /\ mc_seen = [n \in Nodes |-> {}]
    /\ mc_heard = [n \in Nodes |-> {}]
    /\ mc_captured = [n \in Nodes |-> NoPacket]
    /\ mc_peers_up = [n \in Nodes |-> {}]
    /\ mc_conf = [n \in Nodes |-> <<0, 0>>]

McIdle ==
    /\ mc_pc = <<>> /\ mc_ports = <<>> /\ mc_proposed = <<>> /\ mc_port = <<>>
    /\ mc_num_recvd = <<>> /\ mc_seen = <<>> /\ mc_captured = <<>>
    /\ mc_heard = <<>>
    /\ mc_peers_up = <<>>
    /\ mc_conf = <<>>

\* lines 239-247: recv_packets of find_unused_port; removing a port that is
\* not in the pool raises ValueError, which is ignored
PoolAfterKept(ports, dport) == ports
PoolAfter(ports, dport) == ports \ {dport}

McProposeRecv(n, pkt) ==
    /\ mc_pc[n] = "propose"
    /\ pkt \in PacketsOn(ProposeRing)
    /\ mc_ports' = [mc_ports EXCEPT ![n] = PoolAfter(@, pkt.dport)]
    /\ mc_seen' = [mc_seen EXCEPT ![n] = @ \cup {pkt.dport}]
    /\ mc_heard' = [mc_heard EXCEPT ![n] = @ \cup {pkt.group}]
    /\ UNCHANGED <<mc_pc, mc_proposed, mc_port, mc_num_recvd, mc_captured,
                   mc_peers_up, mc_conf>>
    /\ UNCHANGED notMc

\* lines 250-255 and 192: the window closes; choice(ports) is the proposal
\* (choice of an empty list raises)
McProposeDone(n) ==
    /\ mc_pc[n] = "propose"
    /\ IF mc_ports[n] = {}
         THEN /\ mc_pc' = [mc_pc EXCEPT ![n] = "failed"]
              /\ UNCHANGED <<mc_proposed, mc_port>>
         ELSE \E p \in mc_ports[n] :
                /\ mc_proposed' = [mc_proposed EXCEPT ![n] = p]
                /\ mc_port' = [mc_port EXCEPT ![n] = p]
                /\ mc_pc' = [mc_pc EXCEPT ![n] = "discover"]
    /\ mc_ports' = [mc_ports EXCEPT ![n] = {}]
    /\ mc_num_recvd' = [mc_num_recvd EXCEPT ![n] = 0]
    /\ UNCHANGED <<mc_seen, mc_heard, mc_captured, mc_peers_up, mc_conf>>
    /\ UNCHANGED notMc

\* lines 269-273: recv_packets of discover_existing_mcastport
DiscoveredPortKept(old, dport) == old
DiscoveredPort(old, dport) == dport

\* line 276: while self.num_recvd < 1 (and the window is open)
DiscoverContinueTwice(num_recvd) == num_recvd < 2
DiscoverContinue(num_recvd) == num_recvd < 1

\* lines 276-281: cap.dispatch(1, recv_packets) delivers one packet to the
\* callback; the loop ends when its condition fails
McDiscoverRecv(n, pkt) ==
    /\ mc_pc[n] = "discover"
    /\ DiscoverContinue(mc_num_recvd[n])
    /\ pkt \in PacketsOn(DiscoverRing)
    /\ mc_port' = [mc_port EXCEPT ![n] = DiscoveredPort(@, pkt.dport)]
    /\ mc_num_recvd' = [mc_num_recvd EXCEPT ![n] = @ + 1]
    /\ mc_captured' = [mc_captured EXCEPT ![n] = IF @ = NoPacket THEN pkt ELSE @]
    /\ IF DiscoverContinue(mc_num_recvd[n] + 1)
         THEN UNCHANGED <<mc_pc, mc_peers_up, mc_seen, mc_heard>>
         ELSE /\ mc_pc' = [mc_pc EXCEPT ![n] = "decided"]
              /\ mc_peers_up' = [mc_peers_up EXCEPT ![n] = Broadcasting]
              /\ mc_seen' = [mc_seen EXCEPT ![n] = {}]
              /\ mc_heard' = [mc_heard EXCEPT ![n] = {}]
    /\ UNCHANGED <<mc_ports, mc_proposed, mc_conf>>
    /\ UNCHANGED notMc

\* line 276: time.time() - start >= timeout ends the loop
TimedOutPortReset(port) == 0
TimedOutPort(port) == port
McDiscoverTimeout(n) ==
    /\ mc_pc[n] = "discover"
    /\ DiscoverContinue(mc_num_recvd[n])
    /\ mc_port' = [mc_port EXCEPT ![n] = TimedOutPort(@)]
    /\ mc_pc' = [mc_pc EXCEPT ![n] = "decided"]
    /\ mc_peers_up' = [mc_peers_up EXCEPT ![n] = Broadcasting]
    /\ mc_seen' = [mc_seen EXCEPT ![n] = {}]
    /\ mc_heard' = [mc_heard EXCEPT ![n] = {}]
    /\ UNCHANGED <<mc_ports, mc_proposed, mc_num_recvd, mc_captured, mc_conf>>
    /\ UNCHANGED notMc

\* lines 253-254, 279-281, 312-314: a capture or decoding error is fatal
McCaptureError(n) ==
    /\ mc_pc[n] \in {"propose", "discover"}
    /\ mc_pc' = [mc_pc EXCEPT ![n] = "failed"]
    /\ mc_ports' = [mc_ports EXCEPT ![n] = {}]
    /\ mc_seen' = [mc_seen EXCEPT ![n] = {}]
    /\ mc_heard' = [mc_heard EXCEPT ![n] = {}]
    /\ UNCHANGED <<mc_proposed, mc_port, mc_num_recvd, mc_captured, mc_peers_up,
                   mc_conf>>
    /\ UNCHANGED notMc

\* lines 365-373: both rings get ring1's port, the configuration is written
\* and the transport restarted
McCommit(n) ==
    /\ mc_pc[n] = "decided"
    /\ mc_conf' = [mc_conf EXCEPT ![n] = <<mc_port[n], mc_port[n]>>]
    /\ mc_pc' = [mc_pc EXCEPT ![n] = "broadcasting"]
    /\ UNCHANGED <<mc_ports, mc_proposed, mc_port, mc_num_recvd, mc_seen,
                   mc_heard,
                   mc_captured, mc_peers_up>>
    /\ UNCHANGED notMc

McNext ==
    \E n \in Nodes :
        \/ \E pkt \in PacketsOn(ProposeRing) : McProposeRecv(n, pkt)
        \/ McProposeDone(n)
        \/ \E pkt \in PacketsOn(DiscoverRing) : McDiscoverRecv(n, pkt)
        \/ McDiscoverTimeout(n)
        \/ McCaptureError(n)
        \/ McCommit(n)

-----------------------------------------------------------------------------
(* find_subnet and generate_ring1_network_config (lines 161-226).          *)
(*                                                                         *)
(* An IPv4 address is the tuple of its four octets.  A network is an       *)
(* address and a prefix length, as netaddr's IPNetwork keeps them: the     *)
(* address is not masked when the network is built.  IPNetwork and         *)
(* IPAddress objects are ordered by their sort keys:                       *)
(*   IPNetwork: (version, first, prefixlen - 1, host bits)                 *)
(*   IPAddress: (version, value, width)                                    *)

RECURSIVE Pow2(_)
Pow2(n) == IF n = 0 THEN 1 ELSE 2 * Pow2(n - 1)

\* the number of bits of octet i that a prefix of the given length covers
PrefixBits(prefixlen, i) ==
    LET left == prefixlen - 8 * (i - 1)
    IN  IF left < 0 THEN 0 ELSE IF left > 8 THEN 8 ELSE left

\* octet & hostmask octet
HostPart(octet, bits) == octet % Pow2(8 - bits)

\* IPNetwork("%s/%s" % (address, prefixlen))
IPNetwork(address, prefixlen) == [ip |-> address, prefixlen |-> prefixlen]

NoNetwork == [ip |-> <<>>, prefixlen |-> -1]

\* IPNetwork.first, IPNetwork.network: the address with the host bits cleared
FirstOf(net) ==
    [i \in 1..4 |->
        net.ip[i] - HostPart(net.ip[i], PrefixBits(net.prefixlen, i))]

\* address & hostmask
HostBitsOf(net) ==
    [i \in 1..4 |-> HostPart(net.ip[i], PrefixBits(net.prefixlen, i))]

\* the order of two addresses as integers
AddrLt(a, b) ==
    \E i \in 1..4 : a[i] < b[i] /\ \A j \in 1..(i - 1) : a[j] = b[j]

\* the second component of IPNetwork.sort_key()
SortKeyFirstUnmasked(net) == net.ip
SortKeyFirst(net) == FirstOf(net)

\* net < other, both IPNetwork: the order of the sort keys
NetLtNet(net, other) ==
    LET f1 == SortKeyFirst(net)
        f2 == SortKeyFirst(other)
    IN  \/ AddrLt(f1, f2)
        \/ /\ f1 = f2
           /\ \/ net.prefixlen - 1 < other.prefixlen - 1
              \/ /\ net.prefixlen = other.prefixlen
                 /\ AddrLt(HostBitsOf(net), HostBitsOf(other))

\* net >= other, both IPNetwork
NetGeNet(net, other) == ~NetLtNet(net, other)

\* net < address, an IPNetwork against an IPAddress: (4, first, prefixlen - 1,
\* host bits) against (4, value, 32)
NetLtAddress(net, address) ==
    \/ AddrLt(SortKeyFirst(net), address)
    \/ SortKeyFirst(net) = address /\ net.prefixlen - 1 < 32

\* lines 215-226
find_subnet(network, prefixlen) ==
    LET _network == IPNetwork(network, prefixlen)
    IN  IF /\ NetGeNet(_network, IPNetwork(<<10, 0, 0, 0>>, 8))
           /\ NetLtAddress(_network, <<10, 255, 255, 255>>)
          THEN IF NetGeNet(_network, IPNetwork(<<10, 128, 0, 0>>, 9))
                 THEN IPNetwork(<<10, 0, 0, 0>>, prefixlen)
                 ELSE IPNetwork(<<10, 128, 0, 0>>, prefixlen)
          ELSE IPNetwork(<<10, 0, 0, 0>>, prefixlen)

\* a | b on octets
RECURSIVE BitOr(_, _, _)
BitOr(a, b, bits) ==
    IF bits = 0 THEN 0
    ELSE (IF a % 2 = 1 \/ b % 2 = 1 THEN 1 ELSE 0)
         + 2 * BitOr(a \div 2, b \div 2, bits - 1)

\* lines 161-169: (hostmask & address) | subnet.ip, and subnet.prefixlen
generate_ring1_network_config(address, prefixlen) ==
    LET ring0 == IPNetwork(address, prefixlen)
        subnet == find_subnet(FirstOf(ring0), prefixlen)
    IN  <<[i \in 1..4 |-> BitOr(HostBitsOf(ring0)[i], subnet.ip[i], 8)],
          subnet.prefixlen>>

\* the addresses and prefix lengths ring0 is drawn from
SampleAddresses ==
    {<<a, b, c, d>> : a \in {9, 10, 11, 172, 192},
                      b \in {0, 16, 31, 127, 128, 168, 255},
                      c \in {0, 1, 255},
                      d \in {0, 254, 255}}

PrefixLengths == 0..32

SnInit ==
    /\ sn_pc = "start"
    /\ sn_address \in SampleAddresses
    /\ sn_prefixlen \in PrefixLengths
    /\ sn_shadow = NoNetwork
    /\ sn_ring1 = <<>>

SnIdle ==
    /\ sn_pc = "" /\ sn_address = <<>> /\ sn_prefixlen = 0
    /\ sn_shadow = NoNetwork /\ sn_ring1 = <<>>

\* find_subnet called on the address itself, as in the cases listed at
\* lines 209-214
SnFindSubnet ==
    /\ sn_pc = "start"
    /\ sn_shadow' = find_subnet(sn_address, sn_prefixlen)
    /\ sn_pc' = "found"
    /\ UNCHANGED <<sn_address, sn_prefixlen, sn_ring1>>
    /\ UNCHANGED notSn

\* generate_ring1_network_config(ring0): find_subnet called on ring0's network
SnGenerate ==
    /\ sn_pc = "start"
    /\ sn_shadow' = find_subnet(FirstOf(IPNetwork(sn_address, sn_prefixlen)),
                                sn_prefixlen)
    /\ sn_ring1' = generate_ring1_network_config(sn_address, sn_prefixlen)
    /\ sn_pc' = "generated"
    /\ UNCHANGED <<sn_address, sn_prefixlen>>
    /\ UNCHANGED notSn

SnNext == SnFindSubnet \/ SnGenerate

-----------------------------------------------------------------------------
(* configure_corosync(): lines 348-374, with CorosyncRingInterface.ring1   *)
(* (lines 65-80), detect_ring1 (lines 171-206) and unconfigure_pacemaker   *)
(* (lines 484-497).  The interfaces other than ring0's are numbered in the *)
(* order all_interfaces() lists them.  An interface's address is "none"    *)
(* (unconfigured), "ring1" (equal to the ring1 address of this run) or     *)
(* "other".                                                                *)

Ifaces == 1..NIfaces

PrefixLens == {8, 9, 24}

RgArgs ==
    [iface : {0} \cup Ifaces, ipaddr : BOOLEAN, netmask : BOOLEAN,
     port : BOOLEAN]

RgInit ==
    /\ rg_pc = "start"
    /\ rg_args \in RgArgs
    /\ rg_prefixlen \in PrefixLens
    /\ rg_ifaces \in [Ifaces -> [addr : {"none", "ring1", "other"},
                                 link : BOOLEAN]]
    /\ Cardinality({i \in Ifaces : rg_ifaces[i].addr = "ring1"}) <= 1
    /\ rg_ipaddr = "None"
    /\ rg_subnet = "unbound"
    /\ rg_ring1 = 0
    /\ rg_assigned = {}
    /\ rg_written = FALSE
    /\ rg_size = -1
    /\ rg_statusRc = -1
    /\ rg_cmds = <<>>
    /\ rg_error = ""

RgIdle ==
    /\ rg_pc = "idle" /\ rg_args = <<>> /\ rg_prefixlen = 0 /\ rg_ifaces = <<>>
    /\ rg_ipaddr = "" /\ rg_subnet = "" /\ rg_ring1 = 0 /\ rg_assigned = {}
    /\ rg_written = FALSE /\ rg_size = -1 /\ rg_cmds = <<>> /\ rg_error = ""
    /\ rg_statusRc = -1

RgRaise(error) ==
    /\ rg_pc' = "raised"
    /\ rg_error' = error

\* shell.try_run(cmd): logs the command; raises when it fails
RgTryRun(cmd, ok, next) ==
    /\ rg_cmds' = Append(rg_cmds, cmd)
    /\ IF ok
         THEN rg_pc' = next /\ UNCHANGED rg_error
         ELSE RgRaise(cmd)

\* lines 351-354
RgStart ==
    /\ rg_pc = "start"
    /\ IF ~rg_args.ipaddr /\ ~rg_args.netmask
         THEN rg_ipaddr' = "generated" /\ rg_subnet' = "generated"
         ELSE /\ rg_ipaddr' = IF rg_args.ipaddr THEN "given" ELSE "None"
              /\ rg_subnet' = IF rg_args.netmask THEN "given" ELSE "unbound"
    /\ rg_pc' = "choose"
    /\ UNCHANGED <<rg_statusRc, rg_args, rg_prefixlen, rg_ifaces, rg_ring1, rg_assigned,
                   rg_written, rg_size, rg_cmds, rg_error>>
    /\ UNCHANGED notRg

\* line 356: ring1_iface and ring1_ipaddr and ring1_subnet and mcast_port
ManualRing1(args, ipaddr) == args.iface # 0 /\ ipaddr # "None" /\ args.port

\* lines 356-360; reading the unbound ring1_subnet raises
RgChoose ==
    /\ rg_pc = "choose"
    /\ IF rg_subnet = "unbound"
         THEN RgRaise("UnboundLocalError")
         ELSE /\ rg_pc' = IF ManualRing1(rg_args, rg_ipaddr)
                            THEN "manual" ELSE "detect_assign"
              /\ UNCHANGED rg_error
    /\ UNCHANGED <<rg_statusRc, rg_args, rg_prefixlen, rg_ifaces, rg_ipaddr, rg_subnet,
                   rg_ring1, rg_assigned, rg_written, rg_size, rg_cmds>>
    /\ UNCHANGED notRg

\* line 68
NetworkTooBigNever(prefixlen) == FALSE
NetworkTooBig(prefixlen) == prefixlen < 9

\* lines 67-70 of CorosyncRingInterface.ring1
RgManualGuard ==
    /\ rg_pc = "manual"
    /\ IF NetworkTooBig(rg_prefixlen)
         THEN RgRaise("Network cannot be bigger than /9")
         ELSE rg_pc' = "manual_set" /\ UNCHANGED rg_error
    /\ UNCHANGED <<rg_statusRc, rg_args, rg_prefixlen, rg_ifaces, rg_ipaddr, rg_subnet,
                   rg_ring1, rg_assigned, rg_written, rg_size, rg_cmds>>
    /\ UNCHANGED notRg

\* lines 74-78 of CorosyncRingInterface.ring1: set_address on the given device
RgManualSetAddress(ok) ==
    /\ rg_pc = "manual_set"
    /\ RgTryRun("ifconfig", ok, "render")
    /\ IF ok
         THEN /\ rg_ifaces' = [rg_ifaces EXCEPT ![rg_args.iface].addr = "ring1"]
              /\ rg_assigned' = rg_assigned \cup {rg_args.iface}
              /\ rg_ring1' = rg_args.iface
         ELSE UNCHANGED <<rg_ifaces, rg_assigned, rg_ring1>>
    /\ UNCHANGED <<rg_statusRc, rg_args, rg_prefixlen, rg_ipaddr, rg_subnet, rg_written,
                   rg_size>>
    /\ UNCHANGED notRg

\* iface.ipv4_address == ring1_address
HasRing1Address(iface, ipaddr) ==
    IF ipaddr = "None" THEN iface.addr = "none" ELSE iface.addr = "ring1"

\* the first interface of a non-empty set, in the order of all_interfaces()
FirstIface(S) == CHOOSE i \in S : \A j \in S : i <= j

\* lines 175-180: not iface.ipv4_address and iface.has_link
Candidates(ifaces) == {i \in Ifaces : ifaces[i].addr = "none" /\ ifaces[i].link}

\* lines 173-180 of detect_ring1
RgDetectAssign(ok) ==
    /\ rg_pc = "detect_assign"
    /\ IF /\ \A i \in Ifaces : ~HasRing1Address(rg_ifaces[i], rg_ipaddr)
          /\ Candidates(rg_ifaces) # {}
         THEN /\ RgTryRun("ifconfig", ok, "detect_find")
              /\ IF ok
                   THEN LET i == FirstIface(Candidates(rg_ifaces))
                        IN  /\ rg_ifaces' = [rg_ifaces EXCEPT ![i].addr = "ring1"]
                            /\ rg_assigned' = rg_assigned \cup {i}
                   ELSE UNCHANGED <<rg_ifaces, rg_assigned>>
         ELSE /\ ok
              /\ rg_pc' = "detect_find"
              /\ UNCHANGED <<rg_ifaces, rg_assigned, rg_cmds, rg_error>>
    /\ UNCHANGED <<rg_statusRc, rg_args, rg_prefixlen, rg_ipaddr, rg_subnet, rg_ring1,
                   rg_written, rg_size>>
    /\ UNCHANGED notRg

\* lines 182-186 of detect_ring1, and lines 362-363
RgDetectFind ==
    /\ rg_pc = "detect_find"
    /\ LET found == {i \in Ifaces : HasRing1Address(rg_ifaces[i], rg_ipaddr)}
       IN  IF found = {}
             THEN RgRaise("Failed to detect ring1 interface")
                  /\ UNCHANGED rg_ring1
             ELSE /\ rg_ring1' = FirstIface(found)
                  /\ rg_pc' = "negotiate"
                  /\ UNCHANGED rg_error
    /\ UNCHANGED <<rg_statusRc, rg_args, rg_prefixlen, rg_ifaces, rg_ipaddr, rg_subnet,
                   rg_assigned, rg_written, rg_size, rg_cmds>>
    /\ UNCHANGED notRg

\* lines 192-206: the port negotiation, which a capture error ends
RgNegotiate(ok) ==
    /\ rg_pc = "negotiate"
    /\ IF ok
         THEN rg_pc' = "render" /\ UNCHANGED rg_error
         ELSE RgRaise("capture")
    /\ UNCHANGED <<rg_statusRc, rg_args, rg_prefixlen, rg_ifaces, rg_ipaddr, rg_subnet,
                   rg_ring1, rg_assigned, rg_written, rg_size, rg_cmds>>
    /\ UNCHANGED notRg

\* lines 365-369
RgRender ==
    /\ rg_pc = "render"
    /\ rg_written' = TRUE
    /\ rg_cmds' = Append(rg_cmds, "write corosync.conf")
    /\ rg_pc' = "pm_status"
    /\ UNCHANGED <<rg_statusRc, rg_args, rg_prefixlen, rg_ifaces, rg_ipaddr, rg_subnet,
                   rg_ring1, rg_assigned, rg_size, rg_error>>
    /\ UNCHANGED notRg

\* lines 487-490 of unconfigure_pacemaker
RgCrmStatus(rc) ==
    /\ rg_pc = "pm_status"
    /\ rg_cmds' = Append(rg_cmds, "crm status")
    /\ rg_statusRc' = rc
    /\ rg_pc' = IF rc # 0 THEN "restart" ELSE "pm_size"
    /\ UNCHANGED <<rg_args, rg_prefixlen, rg_ifaces, rg_ipaddr, rg_subnet,
                   rg_ring1, rg_assigned, rg_written, rg_size, rg_error>>
    /\ UNCHANGED notRg

\* line 491
LastNodeOrTwo(size) == size <= 2
LastNode(size) == size < 2

\* the listings 'crm_node -l' can print here: up to MaxRingNodes rows
RingListings == {rows \in NodeListings : Len(rows) <= MaxRingNodes}

\* get_cluster_size() and its failure, tabulated over the listings
MalformedListings == {rows \in RingListings : NodeListMalformed(rows)}
ClusterSizes ==
    {<<rows, get_cluster_size(rows)>> : rows \in RingListings \ MalformedListings}
ClusterSizeOf(rows) == (CHOOSE entry \in ClusterSizes : entry[1] = rows)[2]

\* line 491 of unconfigure_pacemaker: get_cluster_size()
RgClusterSize(rows) ==
    /\ rg_pc = "pm_size"
    /\ rg_cmds' = Append(rg_cmds, "crm_node -l")
    /\ IF rows \in MalformedListings
         THEN RgRaise("ValueError") /\ UNCHANGED rg_size
         ELSE /\ rg_size' = ClusterSizeOf(rows)
              /\ rg_pc' = IF LastNode(ClusterSizeOf(rows))
                            THEN "pm_erase" ELSE "pm_stop"
              /\ UNCHANGED rg_error
    /\ UNCHANGED <<rg_statusRc, rg_args, rg_prefixlen, rg_ifaces, rg_ipaddr, rg_subnet,
                   rg_ring1, rg_assigned, rg_written>>
    /\ UNCHANGED notRg

\* lines 492-493: cibadmin(["-f", "-E"]), which returns or raises
RgErase(ok) ==
    /\ rg_pc = "pm_erase"
    /\ RgTryRun("cibadmin -f -E", ok, "pm_stop")
    /\ UNCHANGED <<rg_statusRc, rg_args, rg_prefixlen, rg_ifaces, rg_ipaddr, rg_subnet,
                   rg_ring1, rg_assigned, rg_written, rg_size>>
    /\ UNCHANGED notRg

\* line 495
RgPacemakerStop(ok) ==
    /\ rg_pc = "pm_stop"
    /\ RgTryRun("service pacemaker stop", ok, "pm_off")
    /\ UNCHANGED <<rg_statusRc, rg_args, rg_prefixlen, rg_ifaces, rg_ipaddr, rg_subnet,
                   rg_ring1, rg_assigned, rg_written, rg_size>>
    /\ UNCHANGED notRg

\* line 497
RgPacemakerOff(ok) ==
    /\ rg_pc = "pm_off"
    /\ RgTryRun("chkconfig pacemaker off", ok, "restart")
    /\ UNCHANGED <<rg_statusRc, rg_args, rg_prefixlen, rg_ifaces, rg_ipaddr, rg_subnet,
                   rg_ring1, rg_assigned, rg_written, rg_size>>
    /\ UNCHANGED notRg

\* line 373
RgRestart(ok) ==
    /\ rg_pc = "restart"
    /\ RgTryRun("service corosync restart", ok, "chkconfig")
    /\ UNCHANGED <<rg_statusRc, rg_args, rg_prefixlen, rg_ifaces, rg_ipaddr, rg_subnet,
                   rg_ring1, rg_assigned, rg_written, rg_size>>
    /\ UNCHANGED notRg

\* line 374
RgChkconfig(ok) ==
    /\ rg_pc = "chkconfig"
    /\ RgTryRun("chkconfig corosync on", ok, "returned")
    /\ UNCHANGED <<rg_statusRc, rg_args, rg_prefixlen, rg_ifaces, rg_ipaddr, rg_subnet,
                   rg_ring1, rg_assigned, rg_written, rg_size>>
    /\ UNCHANGED notRg

RgNext ==
    \/ RgStart
    \/ RgChoose
    \/ RgManualGuard
    \/ \E ok \in BOOLEAN : RgManualSetAddress(ok)
    \/ \E ok \in BOOLEAN : RgDetectAssign(ok)
    \/ RgDetectFind
    \/ \E ok \in BOOLEAN : RgNegotiate(ok)
    \/ RgRender
    \/ \E rc \in {0, 1} : RgCrmStatus(rc)
    \/ \E rows \in RingListings : RgClusterSize(rows)
    \/ \E ok \in BOOLEAN : RgErase(ok)
    \/ \E ok \in BOOLEAN : RgPacemakerStop(ok)
    \/ \E ok \in BOOLEAN : RgPacemakerOff(ok)
    \/ \E ok \in BOOLEAN : RgRestart(ok)
    \/ \E ok \in BOOLEAN : RgChkconfig(ok)

-----------------------------------------------------------------------------
(* _render_config_file(path, config): lines 331-345.  A file is "missing", *)
(* or holds the first chunks of the previous or of the new content;        *)
(* shutil.copy opens the target for writing (which creates or truncates    *)
(* it) and then writes the source chunk by chunk.                          *)

Missing == [content |-> "none", chunks |-> -1]
Previous == [content |-> "previous", chunks |-> 1]
NewFile(chunks) == [content |-> "new", chunks |-> chunks]

RfInit ==
    /\ rf_pc = "mkstemp"
    /\ rf_len \in 1..MaxChunks
    /\ rf_tmp = -1
    /\ rf_target \in {Missing, Previous}
    /\ rf_old \in {Missing, Previous}
    /\ rf_had = (rf_target # Missing)
    /\ rf_seen = {}

RfIdle ==
    /\ rf_pc = "idle" /\ rf_len = 0 /\ rf_tmp = -1 /\ rf_target = <<>>
    /\ rf_old = <<>> /\ rf_had = FALSE /\ rf_seen = {}

\* line 335
RfMkstemp ==
    /\ rf_pc = "mkstemp"
    /\ rf_tmp' = 0
    /\ rf_pc' = "write"
    /\ UNCHANGED <<rf_len, rf_target, rf_old, rf_had, rf_seen>>
    /\ UNCHANGED notRf

\* line 336
RfWrite ==
    /\ rf_pc = "write"
    /\ rf_tmp' = rf_len
    /\ rf_pc' = "move"
    /\ UNCHANGED <<rf_len, rf_target, rf_old, rf_had, rf_seen>>
    /\ UNCHANGED notRf

\* line 338: the file at path after shutil.move(path, path + ".old")
TargetAfterMove(target) == Missing

\* lines 337-341: a missing path is ignored, another failure is raised
RfMove(ok) ==
    /\ rf_pc = "move"
    /\ IF rf_target = Missing
         THEN /\ ok
              /\ rf_pc' = "close"
              /\ UNCHANGED <<rf_target, rf_old>>
         ELSE IF ok
                THEN /\ rf_old' = rf_target
                     /\ rf_target' = TargetAfterMove(rf_target)
                     /\ rf_pc' = "close"
                ELSE /\ rf_pc' = "raised"
                     /\ UNCHANGED <<rf_target, rf_old>>
    /\ UNCHANGED <<rf_len, rf_tmp, rf_had, rf_seen>>
    /\ UNCHANGED notRf

\* line 342
RfClose ==
    /\ rf_pc = "close"
    /\ rf_pc' = "copy_open"
    /\ UNCHANGED <<rf_len, rf_tmp, rf_target, rf_old, rf_had, rf_seen>>
    /\ UNCHANGED notRf

\* line 345, shutil.copy: open(path, 'wb')
RfCopyOpen ==
    /\ rf_pc = "copy_open"
    /\ rf_target' = NewFile(0)
    /\ rf_pc' = "copy_write"
    /\ UNCHANGED <<rf_len, rf_tmp, rf_old, rf_had, rf_seen>>
    /\ UNCHANGED notRf

\* line 345, shutil.copy: the copy loop, one chunk per step
RfCopyChunk ==
    /\ rf_pc = "copy_write"
    /\ rf_target.chunks < rf_tmp
    /\ rf_target' = NewFile(rf_target.chunks + 1)
    /\ UNCHANGED <<rf_pc, rf_len, rf_tmp, rf_old, rf_had, rf_seen>>
    /\ UNCHANGED notRf

\* line 345, shutil.copy: end of the copy
RfCopyDone ==
    /\ rf_pc = "copy_write"
    /\ rf_target.chunks = rf_tmp
    /\ rf_pc' = "returned"
    /\ UNCHANGED <<rf_len, rf_tmp, rf_target, rf_old, rf_had, rf_seen>>
    /\ UNCHANGED notRf

\* what a reader that opens and reads path finds; no file is the previous
\* content when there was none before the write
Observed(target, len, had) ==
    CASE target = Missing -> IF had THEN "missing" ELSE "previous"
      [] target = Previous -> "previous"
      [] target.chunks = 0 -> "empty"
      [] target.chunks < len -> "partial"
      [] OTHER -> "new"

\* another process reads path while the write is in progress
RfRead ==
    /\ rf_pc \notin {"idle", "mkstemp", "returned", "raised"}
    /\ rf_seen' = rf_seen \cup {Observed(rf_target, rf_len, rf_had)}
    /\ UNCHANGED <<rf_pc, rf_len, rf_tmp, rf_target, rf_old, rf_had>>
    /\ UNCHANGED notRf

RfNext ==
    \/ RfMkstemp
    \/ RfWrite
    \/ \E ok \in BOOLEAN : RfMove(ok)
    \/ RfClose
    \/ RfCopyOpen
    \/ RfCopyChunk
    \/ RfCopyDone
    \/ RfRead

-----------------------------------------------------------------------------
(* configure_fencing(agents): lines 453-466.  The node object and its      *)
(* clear_fence_attributes and set_fence_attribute are in                   *)
(* chroma_agent.lib.pacemaker; they are modelled as the specification      *)
(* describes them: fence attributes are kept per (idx, attribute).         *)

\* the agents a call may be given: an agent maps attribute names to values
SampleAgents ==
    {<<>>,
     [a \in {"agent"} |-> "x"],
     [a \in {"agent"} |-> "y"],
     [a \in {"agent", "login"} |-> IF a = "agent" THEN "x" ELSE "y"]}

AgentLists ==
    UNION {[1..k -> SampleAgents] : k \in 0..MaxFenceAgents}

\* node.clear_fence_attributes()
clear_fence_attributes(attrs) == {}

\* node.set_fence_attribute(idx, attribute, value)
set_fence_attribute(attrs, idx, attribute, value) ==
    {t \in attrs : <<t[1], t[2]>> # <<idx, attribute>>}
        \cup {<<idx, attribute, value>>}

\* line 457: the node's attributes when the loop of line 464 starts
AttrsBeforeLoopKept(attrs) == attrs
AttrsBeforeLoop(attrs) == clear_fence_attributes(attrs)

\* lines 465-466: set_fence_attribute for every item of one agent
RECURSIVE SetAgent(_, _, _, _)
SetAgent(attrs, idx, agent, todo) ==
    IF todo = {} THEN attrs
    ELSE LET attribute == CHOOSE a \in todo : TRUE
         IN  SetAgent(set_fence_attribute(attrs, idx, attribute,
                                          agent[attribute]),
                      idx, agent, todo \ {attribute})

FcInit ==
    /\ fc_pc = "call"
    /\ fc_calls = 0
    /\ fc_agents = <<>>
    /\ fc_idx = 0
    /\ fc_attrs = {}
    /\ fc_first = {}

FcIdle ==
    /\ fc_pc = "idle" /\ fc_calls = 0 /\ fc_agents = <<>> /\ fc_idx = 0
    /\ fc_attrs = {} /\ fc_first = {}

\* lines 453-455
FcCall(agents) ==
    /\ fc_pc = "call"
    /\ fc_agents' = agents
    /\ fc_pc' = "clear"
    /\ UNCHANGED <<fc_calls, fc_idx, fc_attrs, fc_first>>
    /\ UNCHANGED notFc

\* line 457
FcClear ==
    /\ fc_pc = "clear"
    /\ fc_attrs' = AttrsBeforeLoop(fc_attrs)
    /\ fc_idx' = 0
    /\ fc_pc' = "set"
    /\ UNCHANGED <<fc_calls, fc_agents, fc_first>>
    /\ UNCHANGED notFc

\* lines 464-466: one iteration of the outer loop; idx counts from 0
FcSetAgent ==
    /\ fc_pc = "set"
    /\ fc_idx < Len(fc_agents)
    /\ LET agent == fc_agents[fc_idx + 1]
       IN  fc_attrs' = SetAgent(fc_attrs, fc_idx, agent, DOMAIN agent)
    /\ fc_idx' = fc_idx + 1
    /\ UNCHANGED <<fc_pc, fc_calls, fc_agents, fc_first>>
    /\ UNCHANGED notFc

\* the loop of line 464 ends and the call returns
FcReturn ==
    /\ fc_pc = "set"
    /\ fc_idx = Len(fc_agents)
    /\ fc_calls' = fc_calls + 1
    /\ fc_first' = IF fc_calls = 0 THEN fc_attrs ELSE fc_first
    /\ fc_pc' = IF fc_calls + 1 < NCalls THEN "call" ELSE "done"
    /\ UNCHANGED <<fc_agents, fc_idx, fc_attrs>>
    /\ UNCHANGED notFc

FcNext ==
    \/ \E agents \in AgentLists : FcCall(agents)
    \/ FcClear
    \/ FcSetAgent
    \/ FcReturn

-----------------------------------------------------------------------------
(* get_cluster_size() on its own: lines 377-389.                           *)

SzInit ==
    /\ sz_pc = "start"
    /\ sz_rows \in NodeListings
    /\ sz_result = -1

SzIdle == sz_pc = "idle" /\ sz_rows = <<>> /\ sz_result = -1

\* lines 382-389: every line unpacks into three fields
SzReturn ==
    /\ sz_pc = "start"
    /\ ~NodeListMalformed(sz_rows)
    /\ sz_result' = get_cluster_size(sz_rows)
    /\ sz_pc' = "returned"
    /\ UNCHANGED sz_rows
    /\ UNCHANGED notSz

\* line 385: the unpacking raises ValueError
SzRaise ==
    /\ sz_pc = "start"
    /\ NodeListMalformed(sz_rows)
    /\ sz_pc' = "raised"
    /\ UNCHANGED <<sz_rows, sz_result>>
    /\ UNCHANGED notSz

SzNext == SzReturn \/ SzRaise

-----------------------------------------------------------------------------
(* delete_node(nodename): lines 519-530.  The two transactions are calls   *)
(* of cibadmin and run on its variables.                                   *)

\* the registry listings: ids count from 1, two names, names may repeat
DeleteListings ==
    UNION {{[i \in 1..k |-> <<i, f[i], "member">>] : f \in [1..k -> {"a", "b"}]}
           : k \in 0..MaxDeleteRows}

\* the names asked for: "c" is in no listing
DeleteNames == {"a", "c"}

\* line 522: stdout.split('\n'), with the empty piece after the last newline
DeleteLinesStripped(stdout) == Split(RStrip(stdout), "\n")
DeleteLines(stdout) == Split(stdout, "\n")

\* lines 521-525: the loop over the lines from line i on; unpacking a line
\* that has not three fields raises ValueError
RECURSIVE LookupFrom(_, _, _, _)
LookupFrom(lines, i, node_id, nodename) ==
    IF i > Len(lines)
      THEN [raised |-> FALSE, node_id |-> node_id]
      ELSE LET fields == Split(lines[i], " ")
           IN  IF Len(fields) # 3
                 THEN [raised |-> TRUE, node_id |-> node_id]
                 ELSE IF fields[2] = <<nodename>>
                        THEN [raised |-> FALSE, node_id |-> fields[1]]
                        ELSE LookupFrom(lines, i + 1, fields[1], nodename)

\* lines 520-525
DeleteLookup(rows, nodename) ==
    LookupFrom(DeleteLines(ListingText(rows)), 1, "None", nodename)

ForceRemove == "crm_node --force -R"
DeleteTopology == "--delete nodes -X node"
DeleteStatus == "--delete nodes --crm_xml node_state"

DnInit ==
    /\ dn_pc = "lookup"
    /\ dn_rows \in DeleteListings
    /\ dn_nodename \in DeleteNames
    /\ dn_node_id = "None"
    /\ dn_cmds = <<>>
    /\ dn_rcs = <<>>
    /\ dn_error = ""

DnIdle ==
    /\ dn_pc = "idle" /\ dn_rows = <<>> /\ dn_nodename = "" /\ dn_node_id = ""
    /\ dn_cmds = <<>> /\ dn_rcs = <<>> /\ dn_error = ""

\* lines 520-525
DnLookup ==
    /\ dn_pc = "lookup"
    /\ LET found == DeleteLookup(dn_rows, dn_nodename)
       IN  /\ dn_node_id' = found.node_id
           /\ IF found.raised
                THEN dn_pc' = "raised" /\ dn_error' = "ValueError"
                ELSE dn_pc' = "remove" /\ UNCHANGED dn_error
    /\ UNCHANGED <<dn_rows, dn_nodename, dn_cmds, dn_rcs>>
    /\ UNCHANGED notDn

\* line 526: try_run raises when the command fails
RemoveFailureIgnored(ok) == FALSE
RemoveFailureAborts(ok) == ~ok

\* line 526
DnForceRemove(ok) ==
    /\ dn_pc = "remove"
    /\ dn_cmds' = Append(dn_cmds, <<ForceRemove, dn_node_id>>)
    /\ dn_rcs' = Append(dn_rcs, IF ok THEN 0 ELSE 1)
    /\ IF RemoveFailureAborts(ok)
         THEN dn_pc' = "raised" /\ dn_error' = ForceRemove
         ELSE dn_pc' = "topology" /\ UNCHANGED dn_error
    /\ UNCHANGED <<dn_rows, dn_nodename, dn_node_id>>
    /\ UNCHANGED notDn

\* the entry of cibadmin(command_args): lines 533-539
CibEnter(args) ==
    /\ cib_args' = args
    /\ cib_n' = CibAttempts
    /\ cib_rc' = CibBusy
    /\ cib_codes' = <<>>
    /\ cib_out' = <<"", "">>
    /\ cib_sleeps' = 0
    /\ cib_pc' = "loop"
    /\ cib_result' = <<>>

\* lines 527-528: the first transaction begins
DnTopology ==
    /\ dn_pc = "topology"
    /\ dn_cmds' = Append(dn_cmds, <<"cibadmin", DeleteTopology>>)
    /\ CibEnter(DeleteTopology)
    /\ dn_pc' = "in_topology"
    /\ UNCHANGED <<dn_rows, dn_nodename, dn_node_id, dn_rcs, dn_error>>
    /\ UNCHANGED notDnCib

\* one iteration of the loop of cibadmin, in either transaction
DnCibRun(rc, out) ==
    /\ dn_pc \in {"in_topology", "in_status"}
    /\ CibRun(rc, out)

\* the transaction raised: delete_node does not catch it
DnCibRaised ==
    /\ dn_pc \in {"in_topology", "in_status"}
    /\ cib_pc = "raised"
    /\ dn_rcs' = Append(dn_rcs, cib_rc)
    /\ dn_pc' = "raised"
    /\ dn_error' = <<"cibadmin", cib_args>>
    /\ UNCHANGED <<dn_rows, dn_nodename, dn_node_id, dn_cmds>>
    /\ UNCHANGED cibVars
    /\ UNCHANGED notDnCib

\* lines 529-530: the first transaction returned, the second begins
DnStatus ==
    /\ dn_pc = "in_topology"
    /\ cib_pc = "returned"
    /\ dn_rcs' = Append(dn_rcs, cib_rc)
    /\ dn_cmds' = Append(dn_cmds, <<"cibadmin", DeleteStatus>>)
    /\ CibEnter(DeleteStatus)
    /\ dn_pc' = "in_status"
    /\ UNCHANGED <<dn_rows, dn_nodename, dn_node_id, dn_error>>
    /\ UNCHANGED notDnCib

\* the second transaction returned, and delete_node with it
DnReturn ==
    /\ dn_pc = "in_status"
    /\ cib_pc = "returned"
    /\ dn_rcs' = Append(dn_rcs, cib_rc)
    /\ dn_pc' = "returned"
    /\ UNCHANGED <<dn_rows, dn_nodename, dn_node_id, dn_cmds, dn_error>>
    /\ UNCHANGED cibVars
    /\ UNCHANGED notDnCib

DnNext ==
    \/ DnLookup
    \/ \E ok \in BOOLEAN : DnForceRemove(ok)
    \/ DnTopology
    \/ \E rc \in CibCodes, out \in CibOutputs : DnCibRun(rc, out)
    \/ DnCibRaised
    \/ DnStatus
    \/ DnReturn

-----------------------------------------------------------------------------
(* The specifications: one per component.                                  *)

InitCib == CibInit /\ PmIdle /\ AgIdle /\ McIdle /\ SnIdle /\ RgIdle
    /\ RfIdle /\ FcIdle /\ SzIdle /\ DnIdle
SpecCib == InitCib /\ [][CibNext]_vars

InitPm == PmInit /\ CibIdle /\ AgIdle /\ McIdle /\ SnIdle /\ RgIdle
    /\ RfIdle /\ FcIdle /\ SzIdle /\ DnIdle
SpecPm == InitPm /\ [][PmNext]_vars

InitAgents == AgInit /\ CibIdle /\ PmIdle /\ McIdle /\ SnIdle /\ RgIdle
    /\ RfIdle /\ FcIdle /\ SzIdle /\ DnIdle
SpecAgents == InitAgents /\ [][AgNext]_vars

InitMcast == McInit /\ CibIdle /\ PmIdle /\ AgIdle /\ SnIdle /\ RgIdle
    /\ RfIdle /\ FcIdle /\ SzIdle /\ DnIdle
SpecMcast == InitMcast /\ [][McNext]_vars

InitSubnet == SnInit /\ CibIdle /\ PmIdle /\ AgIdle /\ McIdle /\ RgIdle
    /\ RfIdle /\ FcIdle /\ SzIdle /\ DnIdle
SpecSubnet == InitSubnet /\ [][SnNext]_vars

InitRing == RgInit /\ CibIdle /\ PmIdle /\ AgIdle /\ McIdle /\ SnIdle
    /\ RfIdle /\ FcIdle /\ SzIdle /\ DnIdle
SpecRing == InitRing /\ [][RgNext]_vars

InitRender == RfInit /\ CibIdle /\ PmIdle /\ AgIdle /\ McIdle /\ SnIdle
    /\ RgIdle /\ FcIdle /\ SzIdle /\ DnIdle
SpecRender == InitRender /\ [][RfNext]_vars

InitFencing == FcInit /\ CibIdle /\ PmIdle /\ AgIdle /\ McIdle /\ SnIdle
    /\ RgIdle /\ RfIdle /\ SzIdle /\ DnIdle
SpecFencing == InitFencing /\ [][FcNext]_vars

InitSize == SzInit /\ CibIdle /\ PmIdle /\ AgIdle /\ McIdle /\ SnIdle
    /\ RgIdle /\ RfIdle /\ FcIdle /\ DnIdle
SpecSize == InitSize /\ [][SzNext]_vars

InitDelete == DnInit /\ CibIdle /\ PmIdle /\ AgIdle /\ McIdle /\ SnIdle
    /\ RgIdle /\ RfIdle /\ FcIdle /\ SzIdle
SpecDelete == InitDelete /\ [][DnNext]_vars

-----------------------------------------------------------------------------
(* The transaction retrier, checked under SpecCib.                         *)

\* The first k exit codes are k-1 times busy and then 0.
BusyThenSuccess(k) ==
    /\ Len(cib_codes) >= k
    /\ \A i \in 1..(k - 1) : cib_codes[i] = CibBusy
    /\ cib_codes[k] = 0

AllBusy == \A i \in 1..Len(cib_codes) : cib_codes[i] = CibBusy

\* C1: for every k in 1..100, if the command is busy on attempts 1..k-1 and
\* exits 0 on attempt k, cibadmin returns after exactly k invocations and
\* exactly k-1 one-second sleeps.
C1_SuccessAfterBusy ==
    \A k \in 1..CibAttempts :
        BusyThenSuccess(k) =>
            /\ cib_pc = "returned"
            /\ Len(cib_codes) = k
            /\ cib_sleeps = k - 1

\* The 100th attempt is the first to succeed.
C1_Witness ==
    /\ BusyThenSuccess(CibAttempts)
    /\ cib_pc = "returned"
    /\ cib_sleeps = CibAttempts - 1

\* C2: the command is never invoked a 101st time, and when every attempt is
\* busy it is invoked exactly 100 times and cibadmin then raises.
C2_BusyExhausted ==
    /\ Len(cib_codes) <= CibAttempts
    /\ (AllBusy /\ Len(cib_codes) = CibAttempts) =>
           (cib_pc = "raised" /\ cib_result[1] = "RuntimeError")
    /\ (AllBusy /\ cib_pc # "loop") => Len(cib_codes) = CibAttempts

C2_Witness ==
    /\ AllBusy
    /\ Len(cib_codes) = CibAttempts
    /\ cib_pc = "raised"

\* C3: an exit code other than 0 and 10 is the last invocation, and cibadmin
\* raises an error carrying that code and the captured output; cibadmin
\* returns only when its last invocation exited 0, and returns that
\* invocation's (code, stdout, stderr).
C3_FatalCodeAndReturn ==
    /\ \A i \in 1..Len(cib_codes) :
          cib_codes[i] \notin {0, CibBusy} =>
             /\ i = Len(cib_codes)
             /\ cib_pc = "raised"
             /\ cib_result = <<"RuntimeError", cib_codes[i], cib_args,
                               cib_out[1], cib_out[2]>>
    /\ cib_pc = "returned" =>
          /\ Len(cib_codes) >= 1
          /\ cib_codes[Len(cib_codes)] = 0
          /\ cib_rc = 0
          /\ cib_result = <<0, cib_out[1], cib_out[2]>>

\* A fatal code after two busy attempts.
C3_Witness ==
    /\ cib_codes = <<CibBusy, CibBusy, 5>>
    /\ cib_pc = "raised"
    /\ cib_result[2] = 5

-----------------------------------------------------------------------------
(* The bootstrap of one agent, checked under SpecPm.                       *)

LeaderTimeout == "Failed to start pacemaker"

\* The commands configure_pacemaker issues after the leader wait.
AfterWaitCommands ==
    {"chkconfig pacemaker on", "crm_node -l", "resource stop st-fencing",
     "configure delete st-fencing", "configure primitive st-fencing",
     "resource show st-fencing"}
    \cup {PropertyCommands[j] : j \in 1..NProperties}

PmIssued(cmd) == \E i \in 1..Len(pm_cmds) : pm_cmds[i] = cmd

\* C4: when the primitive-create command fails and the existence check exits
\* 0, configure_pacemaker returns without raising and issues no property or
\* resource-default command.
C4_CreateRaceReturns ==
    (pm_createFailed /\ pm_showRc = 0) =>
        /\ pm_pc = "returned"
        /\ pm_error = ""
        /\ PmPropertiesIssued = 0

C4_Witness ==
    /\ pm_createFailed
    /\ pm_showRc = 0
    /\ pm_pc = "returned"
    /\ PmIssued("resource show st-fencing")

\* C5: when the primitive-create command fails and the existence check exits
\* nonzero, the create failure is raised and no property or resource-default
\* command is issued.
C5_CreateFailurePropagates ==
    (pm_createFailed /\ pm_showRc \notin {-1, 0}) =>
        /\ pm_pc = "raised"
        /\ pm_error = "configure primitive st-fencing"
        /\ PmPropertiesIssued = 0

C5_Witness ==
    /\ pm_createFailed
    /\ pm_showRc = 1
    /\ pm_pc = "raised"

\* C6: when 120 polls report no leader the action raises the timeout, which
\* is raised only after exactly 120 polls without a leader, and none of the
\* later commands is issued.
C6_LeaderWaitTimesOut ==
    /\ pm_polls <= LeaderPolls
    /\ (pm_polls = LeaderPolls /\ pm_leaderAt = 0) =>
           (pm_pc = "raised" /\ pm_error = LeaderTimeout)
    /\ pm_error = LeaderTimeout =>
           /\ pm_polls = LeaderPolls
           /\ pm_leaderAt = 0
           /\ pm_pc = "raised"
           /\ \A cmd \in AfterWaitCommands : ~PmIssued(cmd)

C6_Witness ==
    /\ pm_polls = LeaderPolls
    /\ pm_leaderAt = 0
    /\ pm_error = LeaderTimeout

\* C7: when poll k (1 <= k <= 120) is the first to report a leader, polling
\* has stopped after exactly k polls, no timeout is raised, and the bootstrap
\* goes on with the statements after the wait.
C7_LeaderStopsPolling ==
    pm_leaderAt # 0 =>
        /\ pm_leaderAt \in 1..LeaderPolls
        /\ pm_polls = pm_leaderAt
        /\ pm_error # LeaderTimeout
        /\ pm_pc # "poll"
        /\ (pm_pc = "raised" \/ pm_pc = "chkconfig"
               \/ PmIssued("chkconfig pacemaker on"))
        /\ pm_pc = "raised" => pm_error \in AfterWaitCommands \cup {"ValueError"}

\* The leader is seen on the last allowed poll and the bootstrap completes.
C7_Witness ==
    /\ pm_leaderAt = LeaderPolls
    /\ pm_polls = LeaderPolls
    /\ pm_pc = "returned"
    /\ PmPropertiesIssued = NProperties

\* C18: the no-quorum policy chosen, and the one the property command applies
\* to the cluster, is "stop" exactly when get_cluster_size() returned more than
\* 2, and "ignore" for 0, 1 and 2.
C18_QuorumPolicy ==
    /\ pm_size # -1 =>
           /\ pm_policy = "stop" <=> pm_size > 2
           /\ pm_policy = "ignore" <=> pm_size \in {0, 1, 2}
    /\ pm_applied # "" =>
           /\ pm_size # -1
           /\ pm_applied = "stop" <=> pm_size > 2
           /\ pm_applied = "ignore" <=> pm_size \in {0, 1, 2}
    /\ PmPropertiesIssued > 1 => pm_applied # ""

C18_Witness ==
    /\ pm_size = 3
    /\ pm_applied = "stop"
    /\ PmIssued("property no-quorum-policy")

\* the position of the first issue of a command, 0 if it was not issued
PmPosition(cmd) ==
    IF PmIssued(cmd)
      THEN CHOOSE i \in 1..Len(pm_cmds) :
               pm_cmds[i] = cmd /\ \A j \in 1..(i - 1) : pm_cmds[j] # cmd
      ELSE 0

\* C19: the primitive-create command is issued only after a poll reported a
\* leader and after the fencing reset (stop, then delete); a property or
\* resource-default command is issued only after the create command of the
\* run succeeded.
C19_BootstrapOrdering ==
    /\ PmIssued("configure primitive st-fencing") =>
           /\ pm_leaderAt # 0
           /\ 0 < PmPosition("resource stop st-fencing")
           /\ PmPosition("resource stop st-fencing")
                  < PmPosition("configure delete st-fencing")
           /\ PmPosition("configure delete st-fencing")
                  < PmPosition("configure primitive st-fencing")
    /\ \A i \in 1..Len(pm_cmds) :
           (\E j \in 1..NProperties : pm_cmds[i] = PropertyCommands[j]) =>
               /\ ~pm_createFailed
               /\ 0 < PmPosition("configure primitive st-fencing")
               /\ PmPosition("configure primitive st-fencing") < i

C19_Witness ==
    /\ pm_leaderAt = 1
    /\ PmPropertiesIssued = NProperties
    /\ PmPosition("configure delete st-fencing") # 0
    /\ pm_pc = "returned"

-----------------------------------------------------------------------------
(* Several agents and one store, checked under SpecAgents.                 *)

AllReturned == \A a \in Agents : ag_pc[a] = "returned"

-----------------------------------------------------------------------------
(* The port negotiation, checked under SpecMcast.                          *)

Negotiated(n) == mc_pc[n] \in {"decided", "broadcasting"}

\* C9: a node whose discovery captured a packet of a broadcasting peer ends
\* the negotiation with that peer's port, whatever it had proposed, and
\* writes that port to its configuration.
C9_LateJoinerAdoptsPeerPort ==
    \A n \in Nodes :
        (Negotiated(n) /\ mc_captured[n].src \in Nodes) =>
            LET peer == mc_captured[n].src IN
              /\ peer # n
              /\ mc_pc[peer] = "broadcasting"
              /\ mc_port[n] = mc_conf[peer][DiscoverRing + 1]
              /\ mc_pc[n] = "broadcasting" => mc_conf[n] = mc_conf[peer]

\* The late joiner had proposed another port than the peer's.
C9_Witness ==
    \E n \in Nodes :
        /\ mc_pc[n] = "broadcasting"
        /\ mc_captured[n].src \in Nodes
        /\ mc_proposed[n] # mc_port[n]
        /\ mc_port[n] = mc_port[mc_captured[n].src]

\* C10: a node that decides while no peer is sending captures no packet of a
\* peer, and a node that captured no packet keeps the port it proposed
\* itself; so nodes that negotiate in overlapping windows, none seeing
\* another before it commits, can end with different ports (C10_Witness):
\* agreement of the ports is not an invariant.
C10_UnseenNodeKeepsProposal ==
    \A n \in Nodes :
        /\ (Negotiated(n) /\ mc_peers_up[n] = {}) => mc_captured[n].src \notin Nodes
        /\ (Negotiated(n) /\ mc_num_recvd[n] = 0) =>
               /\ mc_port[n] = mc_proposed[n]
               /\ mc_port[n] \in PortPool
               /\ mc_captured[n] = NoPacket

\* Every node decided before any node was sending, captured nothing, and
\* committed; two of them hold different ports.
C10_Witness ==
    /\ \A n \in Nodes :
          /\ mc_pc[n] = "broadcasting"
          /\ mc_peers_up[n] = {}
          /\ mc_num_recvd[n] = 0
    /\ \E n, m \in Nodes : mc_conf[n] # mc_conf[m]

\* C11: the port find_unused_port returned is odd, lies in the range of the
\* pool (1 up to the stop value) and is none of the destination ports seen
\* during its listen window.
C11_ProposalAvoidsSeenPorts ==
    \A n \in Nodes :
        mc_pc[n] = "discover" =>
            /\ mc_proposed[n] % 2 = 1
            /\ mc_proposed[n] >= 1
            /\ mc_proposed[n] <= PortStop
            /\ mc_proposed[n] \notin mc_seen[n]

\* A proposal made after an odd port of the pool was seen in the window.
C11_Witness ==
    \E n \in Nodes :
        /\ mc_pc[n] = "discover"
        /\ mc_proposed[n] # 0
        /\ mc_seen[n] \cap PortPool # {}
        /\ mc_seen[n] \ PortPool # {}

\* C20: after the negotiation the node's port is the destination port of the
\* first packet its discovery captured, and no second packet was captured;
\* when the window expired without a packet it is the proposed port.
C20_NegotiationResult ==
    \A n \in Nodes :
        Negotiated(n) =>
            IF mc_captured[n] # NoPacket
              THEN mc_port[n] = mc_captured[n].dport /\ mc_num_recvd[n] = 1
              ELSE mc_port[n] = mc_proposed[n] /\ mc_num_recvd[n] = 0

\* A node adopted the port of a packet of a host outside the cluster.
C20_Witness ==
    \E n \in Nodes :
        /\ mc_pc[n] = "broadcasting"
        /\ mc_captured[n].src = 0
        /\ mc_port[n] = mc_captured[n].dport
        /\ mc_port[n] # mc_proposed[n]

\* ring0's network, and the blocks of RFC 1918
Ring0Network == IPNetwork(FirstOf(IPNetwork(sn_address, sn_prefixlen)), sn_prefixlen)

Within(net, block) ==
    /\ net.prefixlen >= block.prefixlen
    /\ FirstOf(IPNetwork(net.ip, block.prefixlen)) = block.ip

RFC1918Representable(net) ==
    \/ Within(net, IPNetwork(<<10, 0, 0, 0>>, 8))
    \/ Within(net, IPNetwork(<<172, 16, 0, 0>>, 12))
    \/ Within(net, IPNetwork(<<192, 168, 0, 0>>, 16))

\* two networks share an address iff they agree on the shorter prefix
SharesAddress(n1, n2) ==
    LET p == IF n1.prefixlen < n2.prefixlen THEN n1.prefixlen ELSE n2.prefixlen
    IN  FirstOf(IPNetwork(n1.ip, p)) = FirstOf(IPNetwork(n2.ip, p))

\* C12 (as stated; refuted by ring0 = 10.0.0.0/8): for every RFC 1918 ring0
\* network and prefix length, the subnet find_subnet returns shares no address
\* with ring0's network at that prefix length.
C12_ShadowNeverOverlaps ==
    (sn_pc \in {"found", "generated"} /\ RFC1918Representable(Ring0Network)) =>
        ~SharesAddress(sn_shadow, Ring0Network)

\* the policy of C13, stated on the octets of ring0's network
PolicySubnet(address, prefixlen) ==
    LET network == FirstOf(IPNetwork(address, prefixlen))
        inside10 == prefixlen >= 8 /\ network[1] = 10
        upperHalf == network[2] >= 128
    IN  IF inside10 /\ ~upperHalf
          THEN IPNetwork(<<10, 128, 0, 0>>, prefixlen)
          ELSE IPNetwork(<<10, 0, 0, 0>>, prefixlen)

\* C13: find_subnet follows the policy for every input (inside 10.0.0.0/8:
\* the opposite half; outside: 10.0.0.0/prefixlen), and gives the five listed
\* results.
C13_SubnetPolicy ==
    /\ sn_pc = "found" =>
           sn_shadow = PolicySubnet(sn_address, sn_prefixlen)
    /\ sn_pc = "generated" =>
           sn_shadow = PolicySubnet(Ring0Network.ip, sn_prefixlen)
    /\ find_subnet(<<192, 168, 1, 0>>, 24) = IPNetwork(<<10, 0, 0, 0>>, 24)
    /\ find_subnet(<<10, 0, 1, 0>>, 24) = IPNetwork(<<10, 128, 0, 0>>, 24)
    /\ find_subnet(<<10, 128, 0, 0>>, 9) = IPNetwork(<<10, 0, 0, 0>>, 9)
    /\ find_subnet(<<10, 127, 255, 254>>, 9) = IPNetwork(<<10, 128, 0, 0>>, 9)
    /\ find_subnet(<<10, 255, 255, 255>>, 32) = IPNetwork(<<10, 0, 0, 0>>, 32)

C13_Witness ==
    /\ sn_pc = "found"
    /\ sn_address = <<10, 127, 255, 254>> /\ sn_prefixlen = 9
    /\ sn_shadow = IPNetwork(<<10, 128, 0, 0>>, 9)

\* C14 (as stated; refuted by an auto-detected run on a /8 ring0): in every run
\* of configure_corosync where ring0's prefix length is smaller than 9, no
\* ring1 address is assigned, the config file is not written, and the run does
\* not return normally.
C14_GuardrailEveryRun ==
    (rg_pc # "idle" /\ rg_prefixlen < 9) =>
        /\ rg_assigned = {}
        /\ ~rg_written
        /\ rg_pc # "returned"

\* C15 (as stated; refuted by a read between the move and the end of the
\* copy): a reader of the target path during _render_config_file sees the
\* complete previous content or the complete new content, never a missing,
\* empty or partially written file.
C15_AtomicForReaders == rf_seen \subseteq {"previous", "new"}

\* the attributes of a list of agents, each keyed by the index of its agent
AttrsOf(agents) ==
    UNION {{<<i - 1, a, agents[i][a]>> : a \in DOMAIN agents[i]}
           : i \in 1..Len(agents)}

FenceKeys(attrs) == {<<t[1], t[2]>> : t \in attrs}

\* C16: when a call of configure_fencing that follows another call has
\* returned, the node's fence attributes are exactly those of the agents of
\* the last call, each keyed by the index of its agent; nothing the earlier
\* call set remains unless the last call set it too.
C16_FullReplace ==
    (fc_calls >= 2 /\ fc_pc \in {"call", "done"}) =>
        /\ fc_attrs = AttrsOf(fc_agents)
        /\ fc_first \cap fc_attrs \subseteq AttrsOf(fc_agents)

C16_Witness ==
    /\ fc_calls = 2
    /\ fc_first # {}
    /\ fc_attrs # {}
    /\ FenceKeys(fc_first) \cap FenceKeys(fc_attrs) = {}

\* the number of rows whose status is "member" or "lost"
MemberOrLost(rows) ==
    Cardinality({i \in 1..Len(rows) : rows[i][3] \in {"member", "lost"}})

\* C17 (as stated; refuted by the listing with no rows): for every listing,
\* get_cluster_size returns the number of rows whose status is "member" or
\* "lost".
C17_CountsMemberOrLost ==
    sz_pc \in {"returned", "raised"} =>
        /\ sz_pc = "returned"
        /\ sz_result = MemberOrLost(sz_rows)

RgIssued(cmd) == \E i \in 1..Len(rg_cmds) : rg_cmds[i] = cmd

\* the position of the first issue of a command or step, 0 if there is none
RgPosition(cmd) ==
    IF RgIssued(cmd)
      THEN CHOOSE i \in 1..Len(rg_cmds) :
               rg_cmds[i] = cmd /\ \A j \in 1..(i - 1) : rg_cmds[j] # cmd
      ELSE 0

\* C21 (as stated; refuted by a run in which 'crm status' exits nonzero): in
\* every run of configure_corosync that reaches the restart of the transport
\* service, the stop of the resource-manager service was issued after the
\* config file was written and before the restart.
C21_StopBeforeRestart ==
    RgIssued("service corosync restart") =>
        /\ 0 < RgPosition("write corosync.conf")
        /\ RgPosition("write corosync.conf")
               < RgPosition("service pacemaker stop")
        /\ RgPosition("service pacemaker stop")
               < RgPosition("service corosync restart")

-----------------------------------------------------------------------------
(* delete_node, checked under SpecDelete.                                  *)

\* the index of the first row of the registry with the name, 0 if none
FirstMatch(rows, name) ==
    IF \E i \in 1..Len(rows) : rows[i][2] = name
      THEN CHOOSE i \in 1..Len(rows) :
               rows[i][2] = name /\ \A j \in 1..(i - 1) : rows[j][2] # name
      ELSE 0

\* the forced removals issued so far
ForcedRemovals == {i \in 1..Len(dn_cmds) : dn_cmds[i][1] = ForceRemove}

\* C22: every forced removal names the id of the first registry row whose
\* name is the requested one; when no row has the requested name, the lookup
\* ends in an error and no forced removal is issued.
C22_RemovesFirstMatch ==
    LET first == FirstMatch(dn_rows, dn_nodename)
    IN  /\ \A i \in ForcedRemovals :
               /\ first # 0
               /\ dn_cmds[i][2] = <<ToString(dn_rows[first][1])>>
        /\ (first = 0 /\ dn_pc # "lookup") =>
               dn_pc = "raised" /\ dn_error = "ValueError" /\ dn_cmds = <<>>

\* the requested name is on two rows, the first of them is not row 1, and the
\* forced removal of that row's id was issued
C22_Witness ==
    /\ FirstMatch(dn_rows, dn_nodename) = 2
    /\ Len(dn_rows) = 3
    /\ dn_rows[3][2] = dn_nodename
    /\ dn_cmds # <<>>
    /\ dn_cmds[1] = <<ForceRemove, <<"2">>>>

\* whether the command or transaction was issued
DnIssued(cmd) == \E i \in 1..Len(dn_cmds) : dn_cmds[i] = cmd

TopologyDelete == <<"cibadmin", DeleteTopology>>
StatusDelete == <<"cibadmin", DeleteStatus>>

\* C23: the forced removal is issued first, then the retried transaction that
\* deletes the topology entry, then the one that deletes the status entry,
\* each after the one before it ended with exit code 0; after a failed
\* forced removal no transaction is issued, and after a first transaction
\* that raised (an error other than busy, or busy on every attempt) the
\* second is not issued.
C23_RemovalOrder ==
    /\ Len(dn_cmds) <= 3
    /\ \A i \in 1..Len(dn_cmds) :
           /\ i = 1 => dn_cmds[i][1] = ForceRemove
           /\ i = 2 => dn_cmds[i] = TopologyDelete
           /\ i = 3 => dn_cmds[i] = StatusDelete
           /\ \A j \in 1..(i - 1) : j <= Len(dn_rcs) /\ dn_rcs[j] = 0
    /\ (dn_rcs # <<>> /\ dn_rcs[1] # 0) =>
           dn_pc = "raised" /\ Len(dn_cmds) = 1
    /\ (cib_pc = "raised" /\ cib_args = DeleteTopology) =>
           /\ ~DnIssued(StatusDelete)
           /\ cib_rc # 0
           /\ cib_rc = CibBusy => Len(cib_codes) = CibAttempts
    /\ (cib_pc # "idle" /\ dn_pc \notin {"raised", "returned"}) =>
           cib_args = dn_cmds[Len(dn_cmds)][2]

\* delete_node returned: the three were issued in order, and the last
\* transaction was retried
C23_Witness ==
    /\ dn_pc = "returned"
    /\ dn_cmds = <<<<ForceRemove, dn_node_id>>, TopologyDelete, StatusDelete>>
    /\ dn_rcs = <<0, 0, 0>>
    /\ Len(cib_codes) > 1

-----------------------------------------------------------------------------
(* The property commands of configure_pacemaker, checked under SpecPm.     *)

\* the first j property and resource-default commands
FirstProperties(j) == {PropertyCommands[i] : i \in 1..j}

\* C24: when a property or resource-default command fails, the action is
\* aborted with that command's failure, the failed command is the last one
\* issued, and the commands before it are all still in effect; nothing is
\* rolled back at any time.
C24_AbortWithoutRollback ==
    /\ (PmPropertiesIssued > 0 /\ pm_props # FirstProperties(PmPropertiesIssued))
           => /\ pm_pc = "raised"
              /\ pm_error = PropertyCommands[PmPropertiesIssued]
              /\ pm_cmds[Len(pm_cmds)] = pm_error
              /\ pm_props = FirstProperties(PmPropertiesIssued - 1)
    /\ PmPropertiesIssued = 0 => pm_props = {}

\* the fourth property command failed: three properties are in effect
C24_Witness ==
    /\ pm_pc = "raised"
    /\ pm_error = PropertyCommands[4]
    /\ pm_props = FirstProperties(3)
    /\ PmPropertiesIssued = 4

\* C25 (as stated; refuted by every packet the proposal phase captures): the
\* capture of the proposal phase of a node takes its packets from the device
\* and group of ring1, the ring discover_existing_mcastport listens on.
C25_ProposalListensOnRing1 ==
    \A n \in Nodes : mc_heard[n] \subseteq {DiscoverRing}

-----------------------------------------------------------------------------
(* generate_ring1_network_config, checked under SpecSubnet.                *)

\* C26 (as stated; refuted by ring0 = 10.0.0.0/8 with a host part, and by
\* shorter prefixes): the ring1 address has the host bits of ring0's address,
\* its network part at the returned prefix length is the network address of
\* the subnet find_subnet chose, and the returned prefix length is ring0's.
C26_Ring1KeepsHostBits ==
    sn_pc = "generated" =>
        LET ring0 == IPNetwork(sn_address, sn_prefixlen)
            ring1 == IPNetwork(sn_ring1[1], sn_ring1[2])
        IN  /\ sn_ring1[2] = sn_prefixlen
            /\ HostBitsOf(ring1) = HostBitsOf(ring0)
            /\ FirstOf(ring1) = FirstOf(sn_shadow)

-----------------------------------------------------------------------------
(* unconfigure_pacemaker within configure_corosync, checked under SpecRing. *)

\* C27: the erase of the configuration store is issued only after 'crm
\* status' exited 0 and get_cluster_size() counted fewer than 2 nodes; after
\* a 'crm status' that exited nonzero, no erase, no stop and no disabling of
\* the resource-manager service is issued.
C27_EraseOnlyAsLastNode ==
    /\ RgIssued("cibadmin -f -E") =>
           /\ rg_statusRc = 0
           /\ 0 < RgPosition("crm status")
           /\ RgPosition("crm status") < RgPosition("crm_node -l")
           /\ RgPosition("crm_node -l") < RgPosition("cibadmin -f -E")
           /\ rg_size \in {0, 1}
    /\ rg_statusRc \notin {-1, 0} =>
           /\ ~RgIssued("cibadmin -f -E")
           /\ ~RgIssued("service pacemaker stop")
           /\ ~RgIssued("chkconfig pacemaker off")
           /\ ~RgIssued("crm_node -l")

\* the store was erased by the only node of the cluster
C27_Witness ==
    /\ RgIssued("cibadmin -f -E")
    /\ rg_size = 1
    /\ rg_statusRc = 0

=============================================================================
